---- MODULE Spec2Model ----
(***************************************************************************)
(* Model of the Codex tool adapter                                         *)
(* (src/agents/extensions/experimental/codex/codex_tool.py).               *)
(*                                                                         *)
(* Python strings are modelled as tuples of one-character strings, so that *)
(* str.strip(), truthiness and equality are computed as the code computes  *)
(* them.  None and a non-string value are two reserved one-element tuples. *)
(*                                                                         *)
(* Two specifications are defined:                                         *)
(*   Spec         a sequence of tool calls through _on_invoke_tool         *)
(*                (no on_stream callback configured);                      *)
(*   SpecConsume  one run of _consume_events with the on_stream dispatcher *)
(*                task, over the full event alphabet.                      *)
(***************************************************************************)
EXTENDS Integers, Sequences, FiniteSets, TLC

\* ------------------------------------------------------------------------
\* Bounds
\* ------------------------------------------------------------------------
MaxCalls == 2
MaxEvents == 2
MaxStreamEvents == 3
MaxLines == 3
MaxIdleTicks == 2

\* ------------------------------------------------------------------------
\* Python values
\* ------------------------------------------------------------------------
None == <<"<None>">>
NonStr == <<"<int>">>
EmptyStr == << >>

IsStr(v) == v # None /\ v # NonStr

\* Python truthiness of an optional string
Truthy(v) == v # None /\ v # EmptyStr

RECURSIVE LStrip(_)
LStrip(s) == IF s # << >> /\ Head(s) = " " THEN LStrip(Tail(s)) ELSE s

RECURSIVE RStrip(_)
RStrip(s) ==
    IF s # << >> /\ s[Len(s)] = " " THEN RStrip(SubSeq(s, 1, Len(s) - 1)) ELSE s

\* str.strip()
Strip(s) == RStrip(LStrip(s))

\* Python "a or b" on optional strings
PyOr(a, b) == IF Truthy(a) THEN a ELSE b

NoError == "none"
ModelBehaviorError == "ModelBehaviorError: Invalid JSON input for codex tool"
ErrInputsMissing == "UserError: Codex tool parameters must include an inputs field."
ErrThreadIdNotStr == "UserError: Codex thread_id must be a string when provided."
ErrCtxNotStr == "UserError: Run context key must be a string when provided."
ErrCtxNone == "UserError: requires a mutable run context object (context is None)"
ErrCtxImmutableMapping == "UserError: requires a mutable run context mapping"
ErrCtxFrozenModel == "UserError: Frozen Pydantic models are not supported."
ErrCtxFrozenDataclass == "UserError: Frozen dataclass contexts are not supported."
ErrCtxNoSlot == "UserError: requires the run context to support field"
ErrCtxNotWritable == "UserError: requires a writable object context"
ErrCtxStore == "UserError: Unable to store Codex thread_id in run context field"
ErrActiveThread == "UserError: persist_session=true and already has an active thread."
ErrTurnFailed == "UserError: Codex turn failed"
ErrStreamError == "UserError: Codex stream error"
ErrStreamException == "RuntimeError: raised by the event stream"
ErrCallback == "RuntimeError: raised by on_stream"
ErrNoStdin == "RuntimeError: Codex subprocess has no stdin"
ErrNoStdout == "RuntimeError: Codex subprocess has no stdout"
ErrExitCode == "RuntimeError: Codex exec exited with code"
ErrParse == "RuntimeError: Failed to parse event: not-json"
ErrIdle == "RuntimeError: Codex stream idle for"
ErrSchemaWrite == "RuntimeError: raised while writing the schema file"
ErrRmtree == "OSError: raised by rmtree"

DefaultWithInputs == <<"Codex task completed with inputs.">>
DefaultNoInputs == <<"Codex task completed with no inputs.">>

\* ------------------------------------------------------------------------
\* Run context objects: the properties the code probes
\* ------------------------------------------------------------------------
CtxKinds ==
    { "none", "dict", "mappingproxy", "pydantic_field", "pydantic_extra",
      "pydantic_frozen", "dataclass", "dataclass_frozen", "slots_with_key",
      "slots_without_key", "object", "list", "readonly_object" }

\* setattr: "ok", "ValueError" (pydantic: no such field) or "raises"
CtxProps(kind) ==
    [ isNone           |-> kind = "none",
      isMutableMapping |-> kind = "dict",
      isMapping        |-> kind \in {"dict", "mappingproxy"},
      isBaseModel      |-> kind \in {"pydantic_field", "pydantic_extra", "pydantic_frozen"},
      frozenModel      |-> kind = "pydantic_frozen",
      keyIsModelField  |-> kind \in {"pydantic_field", "pydantic_frozen"},
      isDataclass      |-> kind \in {"dataclass", "dataclass_frozen"},
      frozenDataclass  |-> kind = "dataclass_frozen",
      hasSlots         |-> kind \in {"slots_with_key", "slots_without_key"},
      keyInSlots       |-> kind = "slots_with_key",
      hasDict          |-> kind \in {"pydantic_field", "pydantic_extra", "pydantic_frozen",
                                     "dataclass", "dataclass_frozen", "object",
                                     "readonly_object"},
      setattr          |-> IF kind \in {"pydantic_field", "dataclass", "slots_with_key",
                                        "object"} THEN "ok"
                           ELSE IF kind = "pydantic_extra" THEN "ValueError"
                           ELSE "raises" ]

\* ------------------------------------------------------------------------
\* Pure helpers of codex_tool.py.  A helper that can raise returns
\* [err |-> <error or NoError>, val |-> <value>].
\* ------------------------------------------------------------------------
Ok(v) == [err |-> NoError, val |-> v]
Raise(e) == [err |-> e, val |-> None]

_normalize_thread_id(value) ==
    IF value = None THEN Ok(None)
    ELSE IF ~IsStr(value) THEN Raise(ErrThreadIdNotStr)
    ELSE IF Strip(value) = EmptyStr THEN Ok(None)
    ELSE Ok(Strip(value))

_read_thread_id_from_run_context(ctx) ==
    IF CtxProps(ctx.kind).isNone THEN Ok(None)
    ELSE IF ctx.value = None THEN Ok(None)
    ELSE IF ~IsStr(ctx.value) THEN Raise(ErrCtxNotStr)
    ELSE IF Strip(ctx.value) = EmptyStr THEN Ok(None)
    ELSE Ok(Strip(ctx.value))

_resolve_call_thread_id_context_first(args, ctx, configured_thread_id, use_run_context_thread_id) ==
    LET explicit == _normalize_thread_id(args.thread_id)
        fromCtx  == _read_thread_id_from_run_context(ctx)
    IN  IF use_run_context_thread_id /\ fromCtx.err # NoError THEN fromCtx
        ELSE IF use_run_context_thread_id /\ Truthy(fromCtx.val) THEN fromCtx
        ELSE IF explicit.err # NoError THEN explicit
        ELSE IF Truthy(explicit.val) THEN explicit
        ELSE Ok(configured_thread_id)

_resolve_call_thread_id(args, ctx, configured_thread_id, use_run_context_thread_id) ==
    LET explicit == _normalize_thread_id(args.thread_id)
        fromCtx  == _read_thread_id_from_run_context(ctx)
    IN  IF explicit.err # NoError THEN explicit
        ELSE IF Truthy(explicit.val) THEN explicit
        ELSE IF use_run_context_thread_id /\ fromCtx.err # NoError THEN fromCtx
        ELSE IF use_run_context_thread_id /\ Truthy(fromCtx.val) THEN fromCtx
        ELSE Ok(configured_thread_id)

_validate_run_context_thread_id_context_lenient(ctx) ==
    LET p == CtxProps(ctx.kind)
    IN  IF p.isNone THEN ErrCtxNone ELSE NoError

_validate_run_context_thread_id_context(ctx) ==
    LET p == CtxProps(ctx.kind)
    IN  IF p.isNone THEN ErrCtxNone
        ELSE IF p.isMutableMapping THEN NoError
        ELSE IF p.isMapping THEN ErrCtxImmutableMapping
        ELSE IF p.isBaseModel THEN
            (IF p.frozenModel THEN ErrCtxFrozenModel ELSE NoError)
        ELSE IF p.isDataclass /\ p.frozenDataclass THEN ErrCtxFrozenDataclass
        ELSE IF p.hasSlots /\ ~p.hasDict THEN
            (IF ~p.keyInSlots THEN ErrCtxNoSlot ELSE NoError)
        ELSE IF ~p.hasDict THEN ErrCtxNotWritable
        ELSE NoError

_set_pydantic_context_value(ctx) ==
    LET p == CtxProps(ctx.kind)
    IN  IF p.frozenModel THEN FALSE
        ELSE IF p.keyIsModelField THEN p.setattr = "ok"
        ELSE IF p.setattr = "ok" THEN TRUE
        ELSE IF p.setattr = "ValueError" THEN p.hasDict
        ELSE FALSE

\* Returns [err, ctx]: the error raised (or NoError) and the context afterwards.
_store_thread_id_in_run_context_dropped(ctx, thread_id) == [err |-> NoError, ctx |-> ctx]

_store_thread_id_in_run_context(ctx, thread_id) ==
    LET p == CtxProps(ctx.kind)
        written == [ctx EXCEPT !.value = thread_id]
    IN  IF thread_id = None THEN [err |-> NoError, ctx |-> ctx]
        ELSE IF _validate_run_context_thread_id_context(ctx) # NoError
            THEN [err |-> _validate_run_context_thread_id_context(ctx), ctx |-> ctx]
        ELSE IF p.isMutableMapping THEN [err |-> NoError, ctx |-> written]
        ELSE IF p.isBaseModel THEN
            (IF _set_pydantic_context_value(ctx)
                THEN [err |-> NoError, ctx |-> written]
                ELSE [err |-> ErrCtxStore, ctx |-> ctx])
        ELSE IF p.setattr = "ok" THEN [err |-> NoError, ctx |-> written]
        ELSE [err |-> ErrCtxStore, ctx |-> ctx]

\* Returns [err, ctx]; err is the error that escapes (the code swallows it).
_try_store_propagating(ctx, thread_id, enabled) ==
    IF ~enabled \/ thread_id = None THEN [err |-> NoError, ctx |-> ctx]
    ELSE _store_thread_id_in_run_context(ctx, thread_id)

_try_store_thread_id_in_run_context_after_error(ctx, thread_id, enabled) ==
    IF ~enabled \/ thread_id = None THEN [err |-> NoError, ctx |-> ctx]
    ELSE [err |-> NoError, ctx |-> _store_thread_id_in_run_context(ctx, thread_id).ctx]

_build_default_response(args) ==
    IF ~args.inputs.none /\ args.inputs.items # << >> THEN DefaultWithInputs ELSE DefaultNoInputs

\* ------------------------------------------------------------------------
\* Tool input (the JSON document handed to the tool) and its validation
\* ------------------------------------------------------------------------
TextItem == [type |-> "text", text |-> <<"h", "i">>, path |-> EmptyStr]
ImageItem == [type |-> "local_image", text |-> None, path |-> <<"p">>]
BlankTextItem == [type |-> "text", text |-> <<" ">>, path |-> None]
TextWithPathItem == [type |-> "text", text |-> <<"h">>, path |-> <<"p">>]
ImageWithTextItem == [type |-> "local_image", text |-> <<"h">>, path |-> <<"p">>]
BlankPathImageItem == [type |-> "local_image", text |-> None, path |-> <<" ">>]

\* CodexToolInputItem.validate_item
validate_item_ignoring_other_field(item) ==
    LET text_value == Strip(PyOr(item.text, EmptyStr))
        path_value == Strip(PyOr(item.path, EmptyStr))
    IN  IF item.type = "text" THEN
            IF text_value = EmptyStr THEN Raise(ModelBehaviorError)
            ELSE Ok([type |-> "text", text |-> text_value, path |-> None])
        ELSE
            IF path_value = EmptyStr THEN Raise(ModelBehaviorError)
            ELSE Ok([type |-> "local_image", text |-> None, path |-> path_value])

validate_item(item) ==
    LET text_value == Strip(PyOr(item.text, EmptyStr))
        path_value == Strip(PyOr(item.path, EmptyStr))
    IN  IF item.type = "text" THEN
            IF text_value = EmptyStr THEN Raise(ModelBehaviorError)
            ELSE IF path_value # EmptyStr THEN Raise(ModelBehaviorError)
            ELSE Ok([type |-> "text", text |-> text_value, path |-> None])
        ELSE
            IF path_value = EmptyStr THEN Raise(ModelBehaviorError)
            ELSE IF text_value # EmptyStr THEN Raise(ModelBehaviorError)
            ELSE Ok([type |-> "local_image", text |-> None, path |-> path_value])

\* CodexToolParameters.validate_thread_id
validate_thread_id(thread_id) ==
    IF thread_id = None THEN Ok(None)
    ELSE IF ~IsStr(thread_id) THEN Raise(ModelBehaviorError)
    ELSE IF Strip(thread_id) = EmptyStr THEN Raise(ModelBehaviorError)
    ELSE Ok(Strip(thread_id))

\* An optional list: None, or a list of items
NoInputs == [none |-> TRUE, items |-> << >>]
Inputs(items) == [none |-> FALSE, items |-> items]

AllItemsValid(inputs) == \A i \in 1..Len(inputs) : validate_item(inputs[i]).err = NoError

ValidatedItems(inputs) == [i \in 1..Len(inputs) |-> validate_item(inputs[i]).val]

\* The parameters model the tool validates its input with (codex_tool, lines 310-316).
\* "custom" is a caller-supplied model with an unvalidated thread_id and no
\* minimum length on inputs.
ParametersModel(opts) ==
    IF opts.parameters # "default" THEN opts.parameters
    ELSE IF opts.use_run_context_thread_id THEN "CodexToolRunContextParameters"
    ELSE "CodexToolParameters"

\* input = [json_ok, inputs (NoInputs when the key is missing), thread_id (None when missing)]
_parse_tool_input(parameters_model, input) ==
    IF ~input.json_ok THEN Raise(ModelBehaviorError)
    ELSE IF parameters_model = "custom" THEN
        IF ~AllItemsValid(input.inputs.items) THEN Raise(ModelBehaviorError)
        ELSE Ok([inputs |-> IF input.inputs.none THEN NoInputs
                            ELSE Inputs(ValidatedItems(input.inputs.items)),
                 thread_id |-> input.thread_id])
    ELSE IF input.inputs.none \/ input.inputs.items = << >> THEN Raise(ModelBehaviorError)
    ELSE IF ~AllItemsValid(input.inputs.items) THEN Raise(ModelBehaviorError)
    ELSE IF parameters_model = "CodexToolRunContextParameters" THEN
        IF input.thread_id # None THEN Raise(ModelBehaviorError)
        ELSE Ok([inputs |-> Inputs(ValidatedItems(input.inputs.items)), thread_id |-> None])
    ELSE IF validate_thread_id(input.thread_id).err # NoError THEN Raise(ModelBehaviorError)
    ELSE Ok([inputs |-> Inputs(ValidatedItems(input.inputs.items)),
             thread_id |-> validate_thread_id(input.thread_id).val])

NormalizedInput(item) ==
    IF item.type = "text"
        THEN [type |-> "text", text |-> PyOr(item.text, EmptyStr)]
        ELSE [type |-> "local_image", path |-> PyOr(item.path, EmptyStr)]

_normalize_parameters(params) ==
    IF params.inputs.none THEN Raise(ErrInputsMissing)
    ELSE IF _normalize_thread_id(params.thread_id).err # NoError
        THEN _normalize_thread_id(params.thread_id)
    ELSE Ok([inputs |-> IF params.inputs.items = << >> THEN NoInputs
                        ELSE Inputs([i \in 1..Len(params.inputs.items) |->
                                        NormalizedInput(params.inputs.items[i])]),
             thread_id |-> _normalize_thread_id(params.thread_id).val])

\* ------------------------------------------------------------------------
\* Events and items (events.py / items.py payloads, one uniform record shape)
\* ------------------------------------------------------------------------
NoUsage == [input_tokens |-> -1, cached_input_tokens |-> -1, output_tokens |-> -1]
Usage1 == [input_tokens |-> 2, cached_input_tokens |-> 1, output_tokens |-> 3]
Usage2 == [input_tokens |-> 5, cached_input_tokens |-> 0, output_tokens |-> 1]

\* exit_code -1 stands for None (the command has not exited)
NoItem == [type |-> "none", id |-> "", status |-> "", text |-> EmptyStr, error |-> "",
           exit_code |-> -1, aggregated_output |-> EmptyStr]

Event(type, thread_id, item, u, message) ==
    [type |-> type, thread_id |-> thread_id, item |-> item, usage |-> u, message |-> message]

ThreadStarted(id) == Event("thread.started", id, NoItem, NoUsage, "")
TurnCompleted(u) == Event("turn.completed", None, NoItem, u, "")
TurnFailed(m) == Event("turn.failed", None, NoItem, NoUsage, m)
ThreadError(m) == Event("error", None, NoItem, NoUsage, m)
UnknownEvent == Event("future.event", None, NoItem, NoUsage, "")
ItemEvent(type, item) == Event(type, None, item, NoUsage, "")

AgentMessage(text) ==
    [NoItem EXCEPT !.type = "agent_message", !.id = "m1", !.text = text]
Command(id, status) ==
    [NoItem EXCEPT !.type = "command_execution", !.id = id, !.status = status,
                   !.exit_code = IF status = "failed" THEN 1
                                 ELSE IF status = "completed" THEN 0 ELSE -1]
CommandOutput(id, status, output) ==
    [Command(id, status) EXCEPT !.aggregated_output = output]
McpCall(id, status, error) ==
    [NoItem EXCEPT !.type = "mcp_tool_call", !.id = id, !.status = status, !.error = error]
Reasoning(id, text) ==
    [NoItem EXCEPT !.type = "reasoning", !.id = id, !.text = text]

ItemIds == {"i1", "i2"}

\* The discriminators that select an event variant
KnownEventTypes ==
    { "thread.started", "turn.completed", "turn.failed", "error",
      "item.started", "item.updated", "item.completed" }

coerce_thread_event_strict(raw) ==
    IF raw.type \in KnownEventTypes THEN raw
    ELSE Event("error", None, NoItem, NoUsage, "unknown event")

\* coerce_thread_event (line 1077): the discriminator selects the variant the
\* loop dispatches on; a raw event with any other discriminator becomes the
\* unknown event, which keeps the discriminator and the payload as they came
coerce_thread_event(raw) ==
    IF raw.type \in KnownEventTypes THEN raw
    ELSE Event(raw.type, raw.thread_id, raw.item, raw.usage, raw.message)

\* Events a call-level stream may deliver (Spec)
CallEvents ==
    { ThreadStarted(<<"a">>), ThreadStarted(<<"n">>),
      ItemEvent("item.completed", AgentMessage(<<"x">>)),
      TurnCompleted(Usage1), TurnFailed("boom"), ThreadError("lost") }

\* Events of the full alphabet (SpecConsume)
StreamEvents ==
    { ThreadStarted(<<"n">>),
      TurnCompleted(Usage1), TurnCompleted(Usage2), TurnFailed("boom"), TurnFailed(""), ThreadError("lost"),
      UnknownEvent,
      ItemEvent("item.started", Command("i1", "in_progress")),
      ItemEvent("item.started", McpCall("i2", "in_progress", "")),
      ItemEvent("item.started", Reasoning("", <<"x">>)),
      ItemEvent("item.updated", Command("i1", "in_progress")),
      ItemEvent("item.completed", Command("i1", "failed")),
      ItemEvent("item.completed", CommandOutput("i1", "failed", <<"o", "k">>)),
      ItemEvent("item.completed", Command("i1", "completed")),
      ItemEvent("item.completed", McpCall("i2", "failed", "boom")),
      ItemEvent("item.completed", McpCall("i2", "failed", "")),
      ItemEvent("item.completed", AgentMessage(<<"x">>)),
      ItemEvent("item.completed", AgentMessage(EmptyStr)) }

\* Events of the streams observed through an on_stream callback (SpecConsume)
CallbackEvents ==
    { ThreadStarted(<<"n">>),
      TurnCompleted(Usage1), TurnFailed("boom"), ThreadError("lost"),
      UnknownEvent,
      ItemEvent("item.started", Command("i1", "in_progress")),
      ItemEvent("item.completed", AgentMessage(<<"x">>)) }

\* The sentinel the finally block puts on the queue (None)
Sentinel == Event("<sentinel>", None, NoItem, NoUsage, "")

\* ------------------------------------------------------------------------
\* State
\* ------------------------------------------------------------------------
VARIABLES
    options,                  \* resolved CodexToolOptions (fixed after construction)
    context,                  \* ctx.context: [kind, value stored under the key]
    threads,                  \* the Thread objects created so far: <<[id]>>
    persisted_thread,         \* closure variable persisted_thread (0 = None)
    start_calls,              \* calls of codex.start_thread
    resume_calls,             \* calls of codex.resume_thread
    last_resumed_thread_id,
    ctx_usage,                \* ctx.usage
    turns,                    \* the turns run so far: <<[thread, resume, outcome]>>
    pc,                       \* position of the current call
    calls,                    \* number of calls begun
    usage_before,             \* ctx.usage as the current call found it
    args,                     \* normalized arguments of the current call
    thread,                   \* Thread object of the current call (0 = not yet)
    call_thread_id,
    resolved_thread_id,
    resolved_thread_id_holder,
    exc,                      \* exception in flight or handled (NoError = none)
    outcome,                  \* what the call or _consume_events gave back
    final_response,
    usage,
    consume_thread_id,        \* local resolved_thread_id of _consume_events
    active_spans,             \* item id -> index into spans (0 = no span)
    spans,                    \* every span created: <<[item_id, name, updates, error, finished]>>
    processed,                \* events handled by the stream loop, in order
    event_queue,
    unfinished_tasks,         \* asyncio.Queue unfinished task counter
    dispatch,                 \* dispatcher: "none", "waiting", "running", "running_sync", "done"
    delivered,                \* events handed to the on_stream callback, in order
    callback_errors,          \* "Error while handling Codex on_stream event." log records
    turn_options,             \* TurnOptions of the Thread turn: output_schema, idle_timeout_seconds
    storage,                  \* how the temporary storage behaves: [dump_raises, rmtree_raises]
    schema_file,              \* OutputSchemaFile: [dir, cleanup_calls, rmtree_calls]
    turn_pc,                  \* Thread turn: "none", "start", "running", "done", "failed"
    turn_error,
    turn_events,              \* events the turn received, in order
    signal,                   \* the turn's cancellation signal is set
    idle_elapsed,             \* time since the turn started or the last event was received
    exec_pc,                  \* CodexExec.run: "none", "spawn", "stdin_done", "reading", "done", "failed"
    exec_error,
    watch_pc,                 \* _watch_signal task: "none", "waiting", "done", "cancelled"
    process,                  \* the subprocess
    pipe,                     \* lines written to stdout and not yet read
    written,                  \* every line the subprocess wrote, in order
    yielded,                  \* every line CodexExec.run yielded, in order
    budget_pc,                \* span-data budgeting: "none", "start", "enforced", "done"
    budget_data,              \* the mapping handed to _enforce_span_data_budget
    budget_limit,             \* its max_chars
    budget_result,            \* the mapping it returned
    value_in,                 \* the value handed to _truncate_span_value
    value_out,                \* the value it returned
    budget_dropped,           \* the keys _enforce_span_data_budget popped, in order
    command_item,             \* the command execution item last applied to a span
    schema_pc,                \* output schema resolution: "none", "start", "done"
    schema_option,            \* the output_schema option
    schema_resolved,          \* what _resolve_output_schema gave: [err, val]
    tool_span_errors,         \* SpanErrors the call attached to the current (tool) span
    tasks,                    \* concurrent calls of the tool on one event loop: [pc, args, thread, exc]
    milestones,               \* release script: what fetch_milestones returned
    release_version,          \* release script: the --version argument
    selected                  \* release script: the title printed (NotSelected before it ran)

cfgVars == <<options>>
sessVars == <<context, threads, persisted_thread, start_calls, resume_calls,
              last_resumed_thread_id, ctx_usage, turns>>
callVars == <<pc, calls, usage_before, args, thread, call_thread_id, resolved_thread_id,
              resolved_thread_id_holder, exc, outcome>>
consumeVars == <<final_response, usage, consume_thread_id, active_spans, spans, processed>>
dispVars == <<event_queue, unfinished_tasks, dispatch, delivered, callback_errors>>
turnVars == <<turn_options, storage, schema_file, turn_pc, turn_error, turn_events, signal,
             idle_elapsed>>
execVars == <<exec_pc, exec_error, watch_pc, process, pipe, written, yielded>>
budgetVars == <<budget_pc, budget_data, budget_limit, budget_result, value_in, value_out,
               budget_dropped, command_item>>
schemaVars == <<schema_pc, schema_option, schema_resolved>>
pureVars == <<budgetVars, schemaVars>>
traceVars == <<tool_span_errors>>
taskVars == <<tasks>>
milestoneVars == <<milestones, release_version, selected>>
vars == <<cfgVars, taskVars, milestoneVars, sessVars, callVars, consumeVars, dispVars, turnVars, execVars, pureVars,
          traceVars>>

NoHolder == <<"<no holder>">>
NoArgs == [inputs |-> NoInputs, thread_id |-> None]
NoOutcome == [kind |-> "none", thread_id |-> None, response |-> EmptyStr,
              usage |-> NoUsage, error |-> NoError]
ZeroUsage == [requests |-> 0, input_tokens |-> 0, output_tokens |-> 0, total_tokens |-> 0,
              cached_tokens |-> 0, reasoning_tokens |-> 0]
NoSpans == [id \in ItemIds |-> 0]

\* The calls that may run concurrently on one event loop
MaxTasks == 3
Tasks == 1..MaxTasks
IdleTask == [pc |-> "idle", args |-> NoArgs, thread |-> 0, exc |-> NoError]
NoTasks == [t \in Tasks |-> IdleTask]

\* The release script at rest
NotSelected == <<"<not selected>">>
MilestoneIdle ==
    /\ milestones = << >>
    /\ release_version = EmptyStr
    /\ selected = NotSelected

\* ------------------------------------------------------------------------
\* Codex / Thread (codex.py, thread.py)
\* ------------------------------------------------------------------------
\* Codex.start_thread: a Thread with no identifier yet
start_thread == [id |-> None]

\* Codex.resume_thread: a Thread whose identifier is already known
resume_thread(thread_id) == [id |-> thread_id]

\* Thread turn loop: the identifier is set from a thread.started event unless
\* it is already known
ThreadObserve_overwriting(t, ev) ==
    IF ev.type = "thread.started" THEN [t EXCEPT !.id = ev.thread_id] ELSE t

ThreadObserve(t, ev) ==
    IF ev.type = "thread.started" /\ t.id = None THEN [t EXCEPT !.id = ev.thread_id] ELSE t

\* _get_or_create_persisted_thread: [err, reuse]; reuse = 0 means "create through
\* _get_thread", otherwise the cached Thread is returned.
_get_or_create_persisted_thread_creating_anew(thread_id, existing_thread, thrs) ==
    [err |-> NoError, reuse |-> 0]

_get_or_create_persisted_thread_no_check(thread_id, existing_thread, thrs) ==
    [err |-> NoError, reuse |-> existing_thread]

_get_or_create_persisted_thread(thread_id, existing_thread, thrs) ==
    IF existing_thread # 0 THEN
        IF Truthy(thread_id) /\ Truthy(thrs[existing_thread].id)
                             /\ thrs[existing_thread].id # thread_id
            THEN [err |-> ErrActiveThread, reuse |-> 0]
            ELSE [err |-> NoError, reuse |-> existing_thread]
    ELSE [err |-> NoError, reuse |-> 0]

\* _get_thread
_get_thread(thread_id) ==
    IF Truthy(thread_id) THEN resume_thread(thread_id) ELSE start_thread

\* ------------------------------------------------------------------------
\* Span handling of _consume_events
\* ------------------------------------------------------------------------
SpanKinds == {"command_execution", "mcp_tool_call", "reasoning"}

SpanName(item) ==
    IF item.type = "command_execution" THEN "Codex command execution"
    ELSE IF item.type = "mcp_tool_call" THEN "Codex MCP tool call"
    ELSE "Codex reasoning"

\* span_data_max_chars: None or a number of characters
NoBudget == [none |-> TRUE, chars |-> 0]
Budget(n) == [none |-> FALSE, chars |-> n]

\* str(n) for an integer n
DigitChars == <<"0", "1", "2", "3", "4", "5", "6", "7", "8", "9">>

RECURSIVE Digits(_)
Digits(n) ==
    IF n < 0 THEN <<"-">> \o Digits(0 - n)
    ELSE IF n < 10 THEN <<DigitChars[n + 1]>>
    ELSE Digits(n \div 10) \o <<DigitChars[(n % 10) + 1]>>

\* f"... [truncated, {len(value)} chars]"
TruncatedSuffix(n) ==
    <<".", ".", ".", " ", "[", "t", "r", "u", "n", "c", "a", "t", "e", "d", ",", " ">> \o Digits(n) \o
    <<" ", "c", "h", "a", "r", "s", "]">>

_truncate_span_string(value, max_chars) ==
    IF max_chars.none THEN value
    ELSE IF max_chars.chars <= 0 THEN EmptyStr
    ELSE IF Len(value) <= max_chars.chars THEN value
    ELSE LET suffix == TruncatedSuffix(Len(value))
             max_prefix == max_chars.chars - Len(suffix)
         IN  IF max_prefix <= 0 THEN SubSeq(value, 1, max_chars.chars)
             ELSE SubSeq(value, 1, max_prefix) \o suffix

\* ------------------------------------------------------------------------
\* Span data values and their compact JSON (json.dumps with separators
\* "," and ":"). A value is a string, None, an integer, a boolean, a
\* structured value given by its compact JSON text, or the preview
\* structure {"preview", "truncated", "original_length"}.
\* ------------------------------------------------------------------------
StrV(str) == [t |-> "str", s |-> str, n |-> 0]
NoneV == [t |-> "none", s |-> EmptyStr, n |-> 0]
IntV(i) == [t |-> "int", s |-> EmptyStr, n |-> i]
BoolV(b) == [t |-> "bool", s |-> EmptyStr, n |-> IF b THEN 1 ELSE 0]
ObjV(json) == [t |-> "obj", s |-> json, n |-> 0]
PreviewV(preview, original_length) == [t |-> "preview", s |-> preview, n |-> original_length]

\* A JSON string literal: the quote and the backslash are escaped
RECURSIVE JsonEscape(_)
JsonEscape(str) ==
    IF str = << >> THEN << >>
    ELSE (IF Head(str) \in {"\"", "\\"} THEN <<"\\", Head(str)>> ELSE <<Head(str)>>)
         \o JsonEscape(Tail(str))

JsonString(str) == <<"\"">> \o JsonEscape(str) \o <<"\"">>

\* The compact JSON text of a value
JsonText(v) ==
    CASE v.t = "str" -> JsonString(v.s)
      [] v.t = "none" -> <<"n", "u", "l", "l">>
      [] v.t = "int" -> Digits(v.n)
      [] v.t = "bool" -> IF v.n = 1 THEN <<"t", "r", "u", "e">> ELSE <<"f", "a", "l", "s", "e">>
      [] v.t = "obj" -> v.s
      [] v.t = "preview" ->
            <<"{", "\"", "p", "r", "e", "v", "i", "e", "w", "\"", ":">> \o JsonString(v.s) \o
            <<",", "\"", "t", "r", "u", "n", "c", "a", "t", "e", "d", "\"", ":", "t", "r", "u", "e", ",", "\"", "o", "r", "i", "g", "i", "n", "a", "l", "_", "l", "e", "n", "g", "t", "h", "\"", ":">> \o
            Digits(v.n) \o <<"}">>

_stringify_span_value(v) ==
    IF v.t = "none" THEN EmptyStr
    ELSE IF v.t = "str" THEN v.s
    ELSE JsonText(v)

\* _truncate_span_value: None, numbers and booleans pass; a string is cut;
\* a structured value whose JSON is too long becomes a preview structure
_truncate_span_value_cutting_all(v, max_chars) ==
    IF max_chars.none THEN v
    ELSE IF v.t = "str" THEN StrV(_truncate_span_string(v.s, max_chars))
    ELSE IF Len(JsonText(v)) <= max_chars.chars THEN v
    ELSE PreviewV(_truncate_span_string(JsonText(v), max_chars), Len(JsonText(v)))

_truncate_span_value(v, max_chars) ==
    IF max_chars.none THEN v
    ELSE IF v.t \in {"none", "bool", "int"} THEN v
    ELSE IF v.t = "str" THEN StrV(_truncate_span_string(v.s, max_chars))
    ELSE IF Len(JsonText(v)) <= max_chars.chars THEN v
    ELSE PreviewV(_truncate_span_string(JsonText(v), max_chars), Len(JsonText(v)))

\* ------------------------------------------------------------------------
\* Span-data budgeting (_enforce_span_data_budget). Span data is a function
\* from field names to values.
\* ------------------------------------------------------------------------
SPAN_TRIM_KEYS_with_status ==
    <<"arguments", "command", "output", "result", "error", "text", "changes", "items",
      "status">>

SPAN_TRIM_KEYS ==
    <<"arguments", "command", "output", "result", "error", "text", "changes", "items">>

TrimKeySet == { SPAN_TRIM_KEYS[i] : i \in 1..Len(SPAN_TRIM_KEYS) }

\* Fields that are never trimmed, as the span updates of the handlers use them
OtherKeys == <<"status", "exit_code">>
SpanKeys == SPAN_TRIM_KEYS \o OtherKeys

EmptyData == [k \in {} |-> NoneV]
NoCommandItem ==
    [command |-> NoneV, status |-> NoneV, exit_code |-> NoneV, aggregated_output |-> NoneV]
Restrict(d, keys) == [k \in keys |-> d[k]]
Without(d, key) == Restrict(d, DOMAIN d \ {key})

_drop_empty_string_fields_and_none(d) ==
    Restrict(d, { k \in DOMAIN d : d[k] # StrV(EmptyStr) /\ d[k] # NoneV })

_drop_empty_string_fields(d) == Restrict(d, { k \in DOMAIN d : d[k] # StrV(EmptyStr) })

\* The characters of a string
Chars(str) == [i \in 1..Len(str) |-> SubSeq(str, i, i)]

\* json.dumps(d, ensure_ascii=True, separators=(",", ":")) of a mapping; the
\* fields are written in the order of SpanKeys
RECURSIVE JsonFields(_, _)
JsonFields(d, i) ==
    IF i = 0 THEN << >>
    ELSE LET rest == JsonFields(d, i - 1)
         IN  IF SpanKeys[i] \in DOMAIN d
                 THEN rest \o (IF rest = << >> THEN << >> ELSE <<",">>) \o
                      JsonString(Chars(SpanKeys[i])) \o <<":">> \o JsonText(d[SpanKeys[i]])
                 ELSE rest

JsonDumps(d) == <<"{">> \o JsonFields(d, Len(SpanKeys)) \o <<"}">>

_json_char_size_without_separators(d) ==
    Len(JsonDumps(d)) - (IF Cardinality(DOMAIN d) > 0 THEN 2 * Cardinality(DOMAIN d) - 1 ELSE 0)

_json_char_size(d) == Len(JsonDumps(d))

\* [key for key in keys if key in keyset]
RECURSIVE KeysIn(_, _)
KeysIn(keys, keyset) ==
    IF keys = << >> THEN << >>
    ELSE (IF Head(keys) \in keyset THEN <<Head(keys)>> ELSE << >>) \o KeysIn(Tail(keys), keyset)

\* lines 1335-1340: drop the lowest-priority keys while the blanked base does
\* not fit
RECURSIVE DropUntilBaseFits_highest_first(_, _, _, _, _)
DropUntilBaseFits_highest_first(base, trimmed, kept_keys, dropped, n) ==
    IF _json_char_size(base) > n /\ kept_keys # << >>
        THEN DropUntilBaseFits_highest_first(Without(base, Head(kept_keys)),
                                             Without(trimmed, Head(kept_keys)),
                                             Tail(kept_keys),
                                             Append(dropped, Head(kept_keys)), n)
        ELSE [base |-> base, trimmed |-> trimmed, kept_keys |-> kept_keys,
              dropped |-> dropped]

\* dropped lists the keys popped, in the order they were popped
RECURSIVE DropUntilBaseFits(_, _, _, _, _)
DropUntilBaseFits(base, trimmed, kept_keys, dropped, n) ==
    IF _json_char_size(base) > n /\ kept_keys # << >>
        THEN LET drop_key == kept_keys[Len(kept_keys)]
             IN  DropUntilBaseFits(Without(base, drop_key), Without(trimmed, drop_key),
                                   SubSeq(kept_keys, 1, Len(kept_keys) - 1),
                                   Append(dropped, drop_key), n)
        ELSE [base |-> base, trimmed |-> trimmed, kept_keys |-> kept_keys,
              dropped |-> dropped]

RECURSIVE SumOver(_, _)
SumOver(f, keys) ==
    IF keys = << >> THEN 0 ELSE f[Head(keys)] + SumOver(f, Tail(keys))

\* int(remaining * (weight / weight_total)): the floor of the exact quotient,
\* except where the double-precision product falls just short of a whole
\* number (the cases with remaining < 45 are listed, as reduced fractions;
\* remaining is at most the budget less the 12 characters of the smallest
\* blanked base and the one character reserved)
FloatShortfalls ==
    { <<22, 15, 22>>, <<23, 13, 23>>, <<26, 15, 26>>, <<39, 31, 39>>, <<43, 23, 43>>,
      <<43, 31, 43>>, <<44, 15, 22>>, <<44, 15, 44>> }

WeightedShare(remaining, weight, weight_total) ==
    LET exact == (remaining * weight) \div weight_total
    IN  IF \E f \in FloatShortfalls :
              f[1] = remaining /\ weight * f[3] = f[2] * weight_total
            THEN exact - 1
            ELSE exact

\* sorted(keys, key=weight, reverse=True): stable, largest weight first
RECURSIVE SortedByWeight(_, _)
SortedByWeight(keys, weights) ==
    IF keys = << >> THEN << >>
    ELSE LET first == CHOOSE i \in 1..Len(keys) :
                          /\ \A j \in 1..Len(keys) : weights[keys[j]] <= weights[keys[i]]
                          /\ \A j \in 1..(i - 1) : weights[keys[j]] < weights[keys[i]]
         IN  <<keys[first]>> \o
             SortedByWeight(SubSeq(keys, 1, first - 1) \o SubSeq(keys, first + 1, Len(keys)),
                            weights)

\* lines 1395-1403: hand out the leftover one character at a time
RECURSIVE SpreadLeftover(_, _, _, _, _)
SpreadLeftover(budgets, values, ordered, leftover, idx) ==
    LET expandable == KeysIn(ordered, { k \in DOMAIN values : budgets[k] < Len(values[k]) })
    IN  IF leftover <= 0 \/ expandable = << >> THEN budgets
        ELSE LET key == expandable[(idx % Len(expandable)) + 1]
             IN  SpreadLeftover([budgets EXCEPT ![key] = @ + 1], values, ordered,
                                leftover - 1, idx + 1)

\* lines 1364-1403: the number of characters granted to each field with
\* content; value_keys lists the fields of values in priority order
KeepArgumentsGrant(values, budgets, remaining) ==
    IF "arguments" \in DOMAIN values /\ remaining > 0
        THEN LET needed == Len(values["arguments"]) - budgets["arguments"]
             IN  IF needed > 0 THEN (IF needed < remaining THEN needed ELSE remaining) ELSE 0
        ELSE 0

FieldBudgets(values, value_keys, available) ==
    LET count == Len(value_keys)
        budgets0 == [k \in DOMAIN values |->
                        IF available >= count THEN 1
                        ELSE IF \E i \in 1..available : value_keys[i] = k THEN 1 ELSE 0]
        remaining0 == IF available >= count THEN available - count ELSE 0
        grant == KeepArgumentsGrant(values, budgets0, remaining0)
        budgets1 == [k \in DOMAIN values |->
                        IF k = "arguments" THEN budgets0[k] + grant ELSE budgets0[k]]
        remaining == remaining0 - grant
        Max0(x) == IF x > 0 THEN x ELSE 0
        weights == [k \in DOMAIN values |-> Max0(Len(values[k]) - budgets1[k])]
        weight_total == SumOver(weights, value_keys)
        budgets2 == [k \in DOMAIN values |->
                        IF weight_total > 0 /\ weights[k] # 0
                            THEN budgets1[k] + WeightedShare(remaining, weights[k], weight_total)
                            ELSE budgets1[k]]
        budgets3 == [k \in DOMAIN values |->
                        IF budgets2[k] < Len(values[k]) THEN budgets2[k] ELSE Len(values[k])]
        leftover == available - SumOver(budgets3, value_keys)
    IN  IF remaining > 0
            THEN SpreadLeftover(budgets3, values, SortedByWeight(value_keys, weights),
                                leftover, 0)
            ELSE budgets1

\* max(kept_keys, key=lambda k: len(str(trimmed.get(k, "")))): the first longest
LongestField(trimmed, kept_keys) ==
    kept_keys[CHOOSE i \in 1..Len(kept_keys) :
                /\ \A j \in 1..Len(kept_keys) :
                      Len(trimmed[kept_keys[j]].s) <= Len(trimmed[kept_keys[i]].s)
                /\ \A j \in 1..(i - 1) :
                      Len(trimmed[kept_keys[j]].s) < Len(trimmed[kept_keys[i]].s)]

\* lines 1411-1419: shorten the longest field by one character until the
\* mapping fits
RECURSIVE ShrinkUntilFits(_, _, _, _)
ShrinkUntilFits(trimmed, values, kept_keys, n) ==
    IF _json_char_size(trimmed) > n /\ kept_keys # << >>
        THEN LET key == LongestField(trimmed, kept_keys)
                 current == trimmed[key].s
                 value == IF key \in DOMAIN values THEN values[key] ELSE EmptyStr
             IN  IF Len(current) > 0
                     THEN ShrinkUntilFits(
                              [trimmed EXCEPT ![key] =
                                  StrV(_truncate_span_string(value, Budget(Len(current) - 1)))],
                              values, kept_keys, n)
                     ELSE ShrinkUntilFits(trimmed, values,
                                          SelectSeq(kept_keys, LAMBDA k : k # key), n)
        ELSE trimmed

_enforce_span_data_budget_cutting_each_time(data, max_chars) ==
    IF max_chars.none THEN _drop_empty_string_fields(data)
    ELSE IF max_chars.chars <= 0 THEN EmptyData
    ELSE LET trimmed == _drop_empty_string_fields(data)
         IN  _drop_empty_string_fields(
                 [k \in DOMAIN trimmed |->
                     IF k \in TrimKeySet /\ trimmed[k].t = "str"
                         THEN StrV(SubSeq(trimmed[k].s, 1, Len(trimmed[k].s) - 1))
                         ELSE trimmed[k]])

_enforce_span_data_budget(data, max_chars) ==
    IF max_chars.none THEN _drop_empty_string_fields(data)
    ELSE IF max_chars.chars <= 0 THEN EmptyData
    ELSE
    LET n == max_chars.chars
        trimmed0 == _drop_empty_string_fields(data)
        kept0 == KeysIn(SPAN_TRIM_KEYS, DOMAIN trimmed0)
        base0 == [k \in DOMAIN trimmed0 |->
                    IF k \in TrimKeySet THEN StrV(EmptyStr) ELSE trimmed0[k]]
        dropped == DropUntilBaseFits(base0, trimmed0, kept0, << >>, n)
        base == dropped.base
        trimmed1 == dropped.trimmed
        kept_keys == dropped.kept_keys
        value_keys == KeysIn(kept_keys, { k \in DOMAIN trimmed1 :
                                            /\ trimmed1[k].t # "none"
                                            /\ _stringify_span_value(trimmed1[k]) # EmptyStr })
        values == [k \in { value_keys[i] : i \in 1..Len(value_keys) } |->
                      _stringify_span_value(trimmed1[k])]
        available == n - _json_char_size(base)
        budgets == FieldBudgets(values, value_keys, available)
        trimmed2 == [k \in DOMAIN trimmed1 |->
                        IF k \in DOMAIN values
                            THEN StrV(_truncate_span_string(values[k], Budget(budgets[k])))
                        ELSE IF k \in TrimKeySet THEN StrV(EmptyStr)
                        ELSE trimmed1[k]]
        trimmed3 == ShrinkUntilFits(trimmed2, values, kept_keys, n)
    IN  IF _json_char_size(trimmed0) <= n THEN trimmed0
        ELSE IF kept0 = << >> THEN trimmed0
        ELSE IF _json_char_size(base) > n THEN _drop_empty_string_fields(base)
        ELSE IF kept_keys = << >> THEN _drop_empty_string_fields(base)
        ELSE IF available <= 0 THEN _drop_empty_string_fields(base)
        ELSE IF _json_char_size(trimmed3) <= n THEN _drop_empty_string_fields(trimmed3)
        ELSE _drop_empty_string_fields(base)

\* The keys the loop of lines 1334-1339 popped, in order, in a call of
\* _enforce_span_data_budget
DroppedKeys(data, max_chars) ==
    IF max_chars.none \/ max_chars.chars <= 0 THEN << >>
    ELSE
    LET n == max_chars.chars
        trimmed0 == _drop_empty_string_fields(data)
        kept0 == KeysIn(SPAN_TRIM_KEYS, DOMAIN trimmed0)
        base0 == [k \in DOMAIN trimmed0 |->
                    IF k \in TrimKeySet THEN StrV(EmptyStr) ELSE trimmed0[k]]
    IN  IF _json_char_size(trimmed0) <= n \/ kept0 = << >> THEN << >>
        ELSE DropUntilBaseFits(base0, trimmed0, kept0, << >>, n).dropped

\* _merge_span_data: {**current, **updates}, then the budget
_merge_span_data(current, updates, max_chars) ==
    _enforce_span_data_budget(
        [k \in DOMAIN current \cup DOMAIN updates |->
            IF k \in DOMAIN updates THEN updates[k] ELSE current[k]],
        max_chars)

\* The largest budget and the longest field content the budget functions are
\* applied to
MaxBudget == 56
LongLen == 30

RECURSIVE Fill(_, _)
Fill(ch, n) == IF n <= 0 THEN << >> ELSE <<ch>> \o Fill(ch, n - 1)

Absent == [t |-> "absent", s |-> EmptyStr, n |-> 0]

\* The values each field takes in the mappings that are budgeted
FieldInputs ==
    [arguments |-> {Absent, ObjV(Chars("{\"foo\":\"bar\"}")), StrV(Fill("a", 12))},
     command   |-> {Absent, StrV(Chars("ls"))},
     output    |-> {Absent, StrV(Fill("o", LongLen)), StrV(Chars("a\"b\"c\"d"))},
     result    |-> {Absent, NoneV, StrV(EmptyStr), StrV(Fill("r", 9))},
     error     |-> {Absent},
     text      |-> {Absent},
     changes   |-> {Absent},
     items     |-> {Absent, ObjV(Chars("[1,2]"))},
     status    |-> {Absent, StrV(Chars("completed"))},
     exit_code |-> {Absent, IntV(0)}]

AllKeys == { SpanKeys[i] : i \in 1..Len(SpanKeys) }

\* Every mapping whose fields (the first i of SpanKeys) are absent or take one
\* of their values
RECURSIVE MappingsOver(_)
MappingsOver(i) ==
    IF i = 0 THEN {EmptyData}
    ELSE { IF v = Absent THEN d
           ELSE [k \in DOMAIN d \cup {SpanKeys[i]} |-> IF k = SpanKeys[i] THEN v ELSE d[k]] :
             d \in MappingsOver(i - 1), v \in FieldInputs[SpanKeys[i]] }

BudgetInputs == MappingsOver(Len(SpanKeys))

BudgetLimits == {NoBudget} \cup { Budget(n) : n \in -1..MaxBudget }

ValueInputs ==
    { NoneV, BoolV(TRUE), IntV(12345), StrV(Chars("ok")), StrV(Fill("v", LongLen)),
      ObjV(Chars("{\"a\":1}")), ObjV(Chars("{\"k\":\"") \o Fill("w", LongLen) \o Chars("\"}")) }

\* ------------------------------------------------------------------------
\* Output schema resolution (_resolve_output_schema)
\* ------------------------------------------------------------------------
JSON_PRIMITIVE_TYPES == {"string", "number", "integer", "boolean"}

ErrDescriptorProperties == "Codex output schema descriptor must include properties."
ErrPropertyName == "Codex output schema properties must include non-empty names."
ErrDuplicateProperty == "Duplicate property name in output_schema."
ErrInvalidField == "Invalid schema for output property."
ErrRequiredNotStrings == "output_schema.required must be a list of strings."
ErrRequiredUndefined == "Required property must also be defined in \"properties\"."
ErrSchemaNotObject == "Codex output schema must be a JSON object schema with type \"object\"."
ErrSchemaKind == "Codex output schema must be a JSON schema or descriptor."
TypeError == "TypeError"

\* A field schema: types lists the "type" of the field, of its "items", of
\* their "items" and so on, to the first mapping that has no "items" (<< >>: the
\* field is no mapping); enum is the enum of the innermost mapping: "none",
\* "strings" or "invalid" (not a list of strings)
NoField == [types |-> << >>, enum |-> "none"]
Primitive(type, enum) == [types |-> <<type>>, enum |-> enum]
ArrayOf(field) == [types |-> <<"array">> \o field.types, enum |-> field.enum]
\* field["items"]
ItemsOf(field) == [field EXCEPT !.types = Tail(@)]

\* A descriptor property; a descriptor. required: absent, null or a list of
\* names (NonStr stands for an entry that is no string)
Property(name, description, schema) ==
    [name |-> name, description |-> description, schema |-> schema]
RequiredAbsent == [kind |-> "absent", names |-> << >>]
RequiredNull == [kind |-> "null", names |-> << >>]
Required(names) == [kind |-> "list", names |-> names]

Descriptor(title, properties, required) ==
    [kind |-> "descriptor", type |-> "", title |-> title, properties |-> properties,
     required |-> required]
\* A mapping without a properties list: a JSON schema, with its type ("" when absent)
JsonSchema(type) ==
    [kind |-> "schema", type |-> type, title |-> EmptyStr, properties |-> << >>,
     required |-> RequiredAbsent]
NoOption == [JsonSchema("") EXCEPT !.kind = "none"]
NotAMapping == [JsonSchema("") EXCEPT !.kind = "other"]

RECURSIVE _is_valid_field(_)
_is_valid_field(field) ==
    IF field.types = << >> THEN FALSE
    ELSE IF Head(field.types) \in JSON_PRIMITIVE_TYPES THEN field.enum # "invalid"
    ELSE IF Head(field.types) = "array" THEN _is_valid_field(ItemsOf(field))
    ELSE FALSE

\* The loop of lines 726-737 over the properties from the i-th on, seen holding
\* the names of the properties before it
RECURSIVE ValidateProperties(_, _, _)
ValidateProperties(properties, i, seen) ==
    IF i > Len(properties) THEN NoError
    ELSE LET prop == properties[i]
         IN  IF ~IsStr(prop.name) \/ Strip(prop.name) = EmptyStr THEN ErrPropertyName
             ELSE IF prop.name \in seen THEN ErrDuplicateProperty
             ELSE IF ~_is_valid_field(prop.schema) THEN ErrInvalidField
             ELSE ValidateProperties(properties, i + 1, seen \cup {prop.name})

RECURSIVE ValidateRequired(_, _, _)
ValidateRequired(names, seen, i) ==
    IF i > Len(names) THEN NoError
    ELSE IF names[i] \notin seen THEN ErrRequiredUndefined
    ELSE ValidateRequired(names, seen, i + 1)

_validate_descriptor(option) ==
    LET seen == { option.properties[i].name : i \in 1..Len(option.properties) }
    IN  IF option.properties = << >> THEN Raise(ErrDescriptorProperties)
        ELSE IF ValidateProperties(option.properties, 1, {}) # NoError
            THEN Raise(ValidateProperties(option.properties, 1, {}))
        ELSE IF option.required.kind # "list" THEN Ok(option)
        ELSE IF \E i \in 1..Len(option.required.names) : ~IsStr(option.required.names[i])
            THEN Raise(ErrRequiredNotStrings)
        ELSE IF ValidateRequired(option.required.names, seen, 1) # NoError
            THEN Raise(ValidateRequired(option.required.names, seen, 1))
        ELSE Ok(option)

\* The schema built for a field: the types of the schema, of its items and
\* so on, the enum of the innermost one and the description of the outermost
RECURSIVE _build_codex_output_schema_field(_)
_build_codex_output_schema_field(field) ==
    IF Head(field.types) = "array"
        THEN LET items == _build_codex_output_schema_field(ItemsOf(field))
             IN  [types |-> <<"array">> \o items.types, enum |-> items.enum,
                  description |-> EmptyStr]
        ELSE [types |-> <<Head(field.types)>>, enum |-> field.enum, description |-> EmptyStr]

\* properties[prop["name"]] = prop_schema, for each property in turn
PropertySchema(prop) ==
    IF prop.description # EmptyStr
        THEN [_build_codex_output_schema_field(prop.schema) EXCEPT
                 !.description = prop.description]
        ELSE _build_codex_output_schema_field(prop.schema)

_build_codex_output_schema_open(descriptor) ==
    LET props == descriptor.properties
        names == { props[i].name : i \in 1..Len(props) }
        last(name) == CHOOSE i \in 1..Len(props) :
                          props[i].name = name /\ \A j \in (i + 1)..Len(props) : props[j].name # name
    IN  Ok([type |-> "object",
            additionalProperties |-> TRUE,
            properties |-> [name \in names |-> PropertySchema(props[last(name)])],
            required |-> descriptor.required.names,
            title |-> descriptor.title])

_build_codex_output_schema(descriptor) ==
    LET props == descriptor.properties
        names == { props[i].name : i \in 1..Len(props) }
        last(name) == CHOOSE i \in 1..Len(props) :
                          props[i].name = name /\ \A j \in (i + 1)..Len(props) : props[j].name # name
    IN  IF descriptor.required.kind = "null" THEN Raise(TypeError)
        ELSE Ok([type |-> "object",
                 additionalProperties |-> FALSE,
                 properties |-> [name \in names |-> PropertySchema(props[last(name)])],
                 required |-> descriptor.required.names,
                 title |-> descriptor.title])

\* No schema (None), and the strict JSON schema ensure_strict_json_schema
\* makes of a JSON object schema
NoSchema ==
    [type |-> "none", additionalProperties |-> FALSE, properties |-> << >>,
     required |-> << >>, title |-> EmptyStr]
StrictSchema == [NoSchema EXCEPT !.type = "object"]

_looks_like_descriptor(option) == option.kind = "descriptor"

_resolve_output_schema(option) ==
    IF option.kind = "none" THEN Ok(NoSchema)
    ELSE IF _looks_like_descriptor(option) THEN
        IF _validate_descriptor(option).err # NoError THEN Raise(_validate_descriptor(option).err)
        ELSE _build_codex_output_schema(_validate_descriptor(option).val)
    ELSE IF option.kind = "schema" THEN
        IF option.type # "" /\ option.type # "object" THEN Raise(ErrSchemaNotObject)
        ELSE Ok(StrictSchema)
    ELSE Raise(ErrSchemaKind)

\* The most properties a descriptor has
MaxProperties == 2

PropertyInputs ==
    { Property(<<"a">>, EmptyStr, Primitive("string", "none")),
      Property(<<"a">>, <<"d">>, ArrayOf(Primitive("integer", "none"))),
      Property(<<"b">>, EmptyStr, Primitive("boolean", "none")),
      Property(<<"b">>, EmptyStr, Primitive("string", "strings")),
      Property(<<"b">>, EmptyStr, Primitive("number", "invalid")),
      Property(<<"b">>, EmptyStr, Primitive("object", "none")),
      Property(<<"b">>, EmptyStr, ArrayOf(ArrayOf(Primitive("string", "none")))),
      Property(<<"b">>, EmptyStr, ArrayOf(Primitive("bogus", "none"))),
      Property(<<"b">>, EmptyStr, ArrayOf(NoField)),
      Property(<<"b">>, EmptyStr, NoField),
      Property(<<" ">>, EmptyStr, Primitive("string", "none")),
      Property(NonStr, EmptyStr, Primitive("string", "none")) }

RequiredInputs ==
    { RequiredAbsent, RequiredNull, Required(<< >>), Required(<<<<"a">>>>),
      Required(<<<<"a">>, <<"b">>>>), Required(<<<<"c">>>>), Required(<<NonStr>>) }

RECURSIVE PropertyLists(_)
PropertyLists(n) ==
    IF n = 0 THEN {<< >>}
    ELSE PropertyLists(n - 1) \cup
         { Append(l, prop) : l \in { m \in PropertyLists(n - 1) : Len(m) = n - 1 },
                             prop \in PropertyInputs }

SchemaOptions ==
    { Descriptor(title, properties, required) :
        title \in {EmptyStr, <<"T">>}, properties \in PropertyLists(MaxProperties),
        required \in RequiredInputs }
    \cup { NoOption, NotAMapping, JsonSchema(""), JsonSchema("object"), JsonSchema("string") }

SchemaIdle ==
    /\ schema_pc = "none"
    /\ schema_option = NoOption
    /\ schema_resolved = Ok(NoSchema)

\* The budget and schema functions at rest
PureIdle ==
    /\ budget_pc = "none"
    /\ budget_data = EmptyData
    /\ budget_limit = NoBudget
    /\ budget_result = EmptyData
    /\ value_in = NoneV
    /\ value_out = NoneV
    /\ budget_dropped = << >>
    /\ command_item = NoCommandItem
    /\ SchemaIdle

\* SpanError.data: the keys present, and the values of exit_code and output
NoErrorData == [keys |-> {}, exit_code |-> -1, output |-> EmptyStr]

NewSpan(item) ==
    [item_id |-> item.id, name |-> SpanName(item), updates |-> 0, error |-> "",
     error_data |-> NoErrorData, finished |-> 0, ops |-> <<"start">>]

\* spans.get(item_id): 0 stands for "no span"
SpanGet(active, id) == IF id \in DOMAIN active THEN active[id] ELSE 0

\* Each handler maps [spans, active] to [spans, active].
_handle_item_started(item, st) ==
    IF item.id = "" THEN st
    ELSE IF item.type \in SpanKinds THEN
        [spans  |-> Append(st.spans, NewSpan(item)),
         active |-> [st.active EXCEPT ![item.id] = Len(st.spans) + 1]]
    ELSE st

\* _update_command_span / _update_mcp_tool_span / _update_reasoning_span
SpanUpdate(span) == [span EXCEPT !.updates = @ + 1, !.ops = Append(@, "update")]

_handle_item_updated_opening(item, st) ==
    IF item.id = "" THEN st
    ELSE IF SpanGet(st.active, item.id) = 0 THEN _handle_item_started(item, st)
    ELSE IF item.type \in SpanKinds THEN
        [st EXCEPT !.spans[st.active[item.id]] = SpanUpdate(@)]
    ELSE st

_handle_item_updated(item, st) ==
    IF item.id = "" THEN st
    ELSE IF SpanGet(st.active, item.id) = 0 THEN st
    ELSE IF item.type \in SpanKinds THEN
        [st EXCEPT !.spans[st.active[item.id]] = SpanUpdate(@)]
    ELSE st

SpanErrorOf_any_status(item) ==
    IF item.type = "command_execution" THEN "Codex command execution failed."
    ELSE IF item.type = "mcp_tool_call" /\ item.error # "" THEN item.error
    ELSE ""

SpanErrorOf(item) ==
    IF item.type = "command_execution" /\ item.status = "failed"
        THEN "Codex command execution failed."
    ELSE IF item.type = "mcp_tool_call" /\ item.status = "failed" /\ item.error # ""
        THEN item.error
    ELSE ""

\* error_data of a failed command: the exit code, and the output (truncated
\* to the budget) unless it is None or empty
SpanErrorData(item, max_chars) ==
    IF item.type = "command_execution"
        THEN IF item.aggregated_output # EmptyStr
                 THEN [keys |-> {"exit_code", "output"}, exit_code |-> item.exit_code,
                       output |-> _truncate_span_string(item.aggregated_output, max_chars)]
                 ELSE [keys |-> {"exit_code"}, exit_code |-> item.exit_code,
                       output |-> EmptyStr]
        ELSE NoErrorData

\* span.set_error
SpanSetError(span, item, max_chars) ==
    [span EXCEPT !.error = SpanErrorOf(item),
                 !.error_data = SpanErrorData(item, max_chars),
                 !.ops = Append(@, "error")]

\* span.finish
SpanFinish(span) == [span EXCEPT !.finished = @ + 1, !.ops = Append(@, "finish")]

_handle_item_completed(item, st, max_chars) ==
    IF item.id = "" THEN st
    ELSE IF SpanGet(st.active, item.id) = 0 THEN st
    ELSE LET i == st.active[item.id]
             updated == IF item.type \in SpanKinds THEN SpanUpdate(st.spans[i])
                        ELSE st.spans[i]
             errored == IF SpanErrorOf(item) # "" THEN SpanSetError(updated, item, max_chars)
                        ELSE updated
         IN  [spans  |-> [st.spans EXCEPT ![i] = SpanFinish(errored)],
              active |-> [st.active EXCEPT ![item.id] = 0]]

\* finally block: finish every span still in active_spans, then clear it
CloseOpenSpans(st) ==
    [spans  |-> [i \in 1..Len(st.spans) |->
                    IF \E id \in ItemIds : st.active[id] = i
                        THEN SpanFinish(st.spans[i])
                        ELSE st.spans[i]],
     active |-> NoSpans]

\* _to_agent_usage followed by ctx.usage.add
_to_agent_usage_input_as_total(u) ==
    [requests |-> 1, input_tokens |-> u.input_tokens, output_tokens |-> u.output_tokens,
     total_tokens |-> u.input_tokens,
     cached_tokens |-> u.cached_input_tokens, reasoning_tokens |-> 0]

_to_agent_usage(u) ==
    [requests |-> 1, input_tokens |-> u.input_tokens, output_tokens |-> u.output_tokens,
     total_tokens |-> u.input_tokens + u.output_tokens,
     cached_tokens |-> u.cached_input_tokens, reasoning_tokens |-> 0]

UsageAdd(total, u) ==
    [requests |-> total.requests + u.requests,
     input_tokens |-> total.input_tokens + u.input_tokens,
     output_tokens |-> total.output_tokens + u.output_tokens,
     total_tokens |-> total.total_tokens + u.total_tokens,
     cached_tokens |-> total.cached_tokens + u.cached_tokens,
     reasoning_tokens |-> total.reasoning_tokens + u.reasoning_tokens]

\* asyncio.Queue() is created without maxsize: 0 means unbounded
QueueMaxSize == 0

\* put() suspends the caller only when the queue is full
PutWouldBlock(q) == QueueMaxSize > 0 /\ Len(q) >= QueueMaxSize

\* get(): first in, first out
QueueGetLast(q) == [item |-> q[Len(q)], rest |-> SubSeq(q, 1, Len(q) - 1)]

QueueGet(q) == [item |-> Head(q), rest |-> Tail(q)]

\* ------------------------------------------------------------------------
\* _consume_events
\* ------------------------------------------------------------------------
TurnFailedError(m) == IF m = "" THEN ErrTurnFailed ELSE ErrTurnFailed \o ": " \o m
StreamError(m) == ErrStreamError \o ": " \o m

ConsumeInitThreadId_ignoring_holder(thread_obj_id, holder) == thread_obj_id

\* lines 1038-1042: the id _consume_events starts from
ConsumeInitThreadId(thread_obj_id, holder) ==
    IF thread_obj_id = None /\ holder # NoHolder THEN holder ELSE thread_obj_id

ConsumeInitHolder(thread_obj_id, holder) ==
    IF holder # NoHolder THEN ConsumeInitThreadId(thread_obj_id, holder) ELSE holder

\* lines 1118-1121: "if not final_response"
FinalResponseKeepEmpty(fr, a, seen) == IF seen THEN fr ELSE _build_default_response(a)

FinalResponse(fr, a, seen) == IF fr = EmptyStr THEN _build_default_response(a) ELSE fr

AgentMessageSeen(evs) ==
    \E i \in 1..Len(evs) : evs[i].type = "item.completed" /\ evs[i].item.type = "agent_message"

\* What the stream loop does with the spans for one event (lines 1087-1092)
HandleItemEvent(ev, st) ==
    IF ev.type = "item.started" THEN _handle_item_started(ev.item, st)
    ELSE IF ev.type = "item.updated" THEN _handle_item_updated(ev.item, st)
    ELSE IF ev.type = "item.completed"
        THEN _handle_item_completed(ev.item, st, options.span_data_max_chars)
    ELSE st

EventError_message_dropped(ev) ==
    IF ev.type = "turn.failed" THEN ErrTurnFailed
    ELSE IF ev.type = "error" THEN ErrStreamError
    ELSE NoError

EventError(ev) ==
    IF ev.type = "turn.failed" THEN TurnFailedError(ev.message)
    ELSE IF ev.type = "error" THEN StreamError(ev.message)
    ELSE NoError

\* The end of _consume_events once the callbacks are drained: close the open
\* spans, then return the result or re-raise e.
Finish(e, st, fr, us, tid, evs) ==
    /\ spans' = CloseOpenSpans(st).spans
    /\ active_spans' = CloseOpenSpans(st).active
    /\ exc' = e
    /\ IF e = NoError
        THEN /\ pc' = "returned"
             /\ outcome' = [kind |-> "consumed", thread_id |-> tid,
                            response |-> FinalResponse(fr, args, AgentMessageSeen(evs)),
                            usage |-> us, error |-> NoError]
        ELSE /\ pc' = "raised"
             /\ outcome' = outcome

\* Entering the finally block (line 1106) with exception e (NoError on a normal end)
Leave(e, st, fr, us, tid, evs, q, unf) ==
    IF options.on_stream = "none"
        THEN /\ Finish(e, st, fr, us, tid, evs)
             /\ event_queue' = q
             /\ unfinished_tasks' = unf
        ELSE /\ event_queue' = Append(q, Sentinel)
             /\ unfinished_tasks' = unf + 1
             /\ pc' = "join"
             /\ exc' = e
             /\ spans' = st.spans
             /\ active_spans' = st.active
             /\ outcome' = outcome

\* The event loop runs one task at a time: a synchronous on_stream callback
\* (line 1054) occupies it from its call to its return
LoopBusy == dispatch = "running_sync"

UsageAfterEvent_first_kept(ev, u) ==
    IF ev.type = "turn.completed" /\ u = NoUsage THEN ev.usage ELSE u

\* lines 1095-1096: the usage after an event
UsageAfterEvent(ev, u) == IF ev.type = "turn.completed" THEN ev.usage ELSE u

\* One iteration of "async for raw_event in events" (lines 1076-1105)
ConsumeEvent(raw_event) ==
    LET ev   == coerce_thread_event(raw_event)
        st1  == HandleItemEvent(ev, [spans |-> spans, active |-> active_spans])
        fr   == IF ev.type = "item.completed" /\ ev.item.type = "agent_message"
                    THEN ev.item.text ELSE final_response
        us   == UsageAfterEvent(ev, usage)
        tid  == IF ev.type = "thread.started" THEN ev.thread_id ELSE consume_thread_id
        hold == IF ev.type = "thread.started" /\ resolved_thread_id_holder # NoHolder
                    THEN ev.thread_id ELSE resolved_thread_id_holder
        q1   == IF options.on_stream # "none" THEN Append(event_queue, ev) ELSE event_queue
        unf1 == IF options.on_stream # "none" THEN unfinished_tasks + 1 ELSE unfinished_tasks
        evs  == Append(processed, ev)
    IN  /\ pc = "loop"
        /\ ~LoopBusy
        /\ options.on_stream # "none" => ~PutWouldBlock(event_queue)
        /\ threads' = [threads EXCEPT ![thread] = ThreadObserve(@, ev)]
        /\ processed' = evs
        /\ final_response' = fr
        /\ usage' = us
        /\ consume_thread_id' = tid
        /\ resolved_thread_id_holder' = hold
        /\ IF EventError(ev) = NoError
            THEN /\ pc' = "loop"
                 /\ spans' = st1.spans
                 /\ active_spans' = st1.active
                 /\ event_queue' = q1
                 /\ unfinished_tasks' = unf1
                 /\ UNCHANGED <<exc, outcome>>
            ELSE Leave(EventError(ev), st1, fr, us, tid, evs, q1, unf1)
        /\ UNCHANGED <<turnVars, execVars, pureVars, traceVars, cfgVars, taskVars, milestoneVars, context, persisted_thread, start_calls, resume_calls,
                       last_resumed_thread_id, ctx_usage, turns, calls, usage_before, args, thread,
                       call_thread_id, resolved_thread_id, dispatch, delivered, callback_errors>>

\* The event stream is exhausted
StreamEnd ==
    /\ pc = "loop"
    /\ ~LoopBusy
    /\ Leave(NoError, [spans |-> spans, active |-> active_spans], final_response, usage,
             consume_thread_id, processed, event_queue, unfinished_tasks)
    /\ UNCHANGED <<turnVars, execVars, pureVars, traceVars, cfgVars, taskVars, milestoneVars, sessVars, calls, usage_before, args, thread, call_thread_id, resolved_thread_id,
                   resolved_thread_id_holder, final_response, usage, consume_thread_id,
                   processed, dispatch, delivered, callback_errors>>

\* The event stream raises (malformed line, non-zero exit, idle timeout, ...)
StreamRaises ==
    /\ pc = "loop"
    /\ ~LoopBusy
    /\ Leave(ErrStreamException, [spans |-> spans, active |-> active_spans], final_response,
             usage, consume_thread_id, processed, event_queue, unfinished_tasks)
    /\ UNCHANGED <<turnVars, execVars, pureVars, traceVars, cfgVars, taskVars, milestoneVars, sessVars, calls, usage_before, args, thread, call_thread_id, resolved_thread_id,
                   resolved_thread_id_holder, final_response, usage, consume_thread_id,
                   processed, dispatch, delivered, callback_errors>>

\* _dispatch: take the next payload and call on_stream with it; the awaitable
\* of an async callback is awaited (the task suspends), a sync callback runs on
\* the event loop until it returns
DispatchNext ==
    LET got == QueueGet(event_queue)
    IN  /\ dispatch = "waiting"
        /\ event_queue # << >>
        /\ event_queue' = got.rest
        /\ IF got.item = Sentinel
            THEN /\ dispatch' = "done"
                 /\ unfinished_tasks' = unfinished_tasks - 1
                 /\ delivered' = delivered
            ELSE /\ delivered' = Append(delivered, got.item)
                 /\ dispatch' = IF options.on_stream = "async"
                                    THEN "running" ELSE "running_sync"
                 /\ unfinished_tasks' = unfinished_tasks
        /\ UNCHANGED <<turnVars, execVars, pureVars, traceVars, cfgVars, taskVars, milestoneVars, sessVars, callVars, consumeVars, callback_errors>>

\* _run_handler (lines 1051-1058): [err, logged], the exception that escapes it
\* and the log records it writes, for a callback that raises or returns
_run_handler_uncaught(raises) ==
    [err |-> IF raises THEN ErrCallback ELSE NoError, logged |-> 0]

_run_handler(raises) == [err |-> NoError, logged |-> IF raises THEN 1 ELSE 0]

\* The callback finishes, by returning or by raising; _dispatch marks the
\* payload done in its finally block and goes on unless an exception escaped
CallbackDone(raises) ==
    LET r == _run_handler(raises)
    IN  /\ dispatch \in {"running", "running_sync"}
        /\ dispatch' = IF r.err = NoError THEN "waiting" ELSE "crashed"
        /\ unfinished_tasks' = unfinished_tasks - 1
        /\ callback_errors' = callback_errors + r.logged
        /\ UNCHANGED <<turnVars, execVars, pureVars, traceVars, cfgVars, taskVars, milestoneVars, sessVars, callVars, consumeVars, event_queue, delivered>>

JoinDone_not_waiting ==
    /\ pc = "join"
    /\ Finish(exc, [spans |-> spans, active |-> active_spans], final_response, usage,
              consume_thread_id, processed)
    /\ UNCHANGED <<turnVars, execVars, pureVars, traceVars, cfgVars, taskVars, milestoneVars, sessVars, calls, usage_before, args, thread, call_thread_id, resolved_thread_id,
                   resolved_thread_id_holder, final_response, usage, consume_thread_id,
                   processed, dispVars>>

\* event_queue.join() and "await dispatch_task" complete (lines 1109-1116)
JoinDone ==
    /\ pc = "join"
    /\ unfinished_tasks = 0
    /\ dispatch = "done"
    /\ Finish(exc, [spans |-> spans, active |-> active_spans], final_response, usage,
              consume_thread_id, processed)
    /\ UNCHANGED <<turnVars, execVars, pureVars, traceVars, cfgVars, taskVars, milestoneVars, sessVars, calls, usage_before, args, thread, call_thread_id, resolved_thread_id,
                   resolved_thread_id_holder, final_response, usage, consume_thread_id,
                   processed, dispVars>>

\* ------------------------------------------------------------------------
\* _on_invoke_tool
\* ------------------------------------------------------------------------
ArgThreadIds == {None, <<"a">>, <<" ", "b">>, <<" ">>}

CallInputs ==
    { [json_ok |-> TRUE, inputs |-> Inputs(<<TextItem>>), thread_id |-> t] : t \in ArgThreadIds }
    \cup { [json_ok |-> FALSE, inputs |-> NoInputs, thread_id |-> None],
           [json_ok |-> TRUE, inputs |-> Inputs(<< >>), thread_id |-> None],
           [json_ok |-> TRUE, inputs |-> Inputs(<<BlankTextItem>>), thread_id |-> None],
           [json_ok |-> TRUE, inputs |-> Inputs(<<ImageItem>>), thread_id |-> None],
           [json_ok |-> TRUE, inputs |-> Inputs(<<TextWithPathItem>>), thread_id |-> None],
           [json_ok |-> TRUE, inputs |-> Inputs(<<ImageWithTextItem>>), thread_id |-> None],
           [json_ok |-> TRUE, inputs |-> Inputs(<<BlankPathImageItem>>), thread_id |-> None],
           [json_ok |-> TRUE, inputs |-> Inputs(<<TextItem, BlankTextItem>>),
            thread_id |-> <<"a">>] }

ResetConsume ==
    /\ final_response' = EmptyStr
    /\ usage' = NoUsage
    /\ consume_thread_id' = None
    /\ active_spans' = NoSpans
    /\ spans' = << >>
    /\ processed' = << >>
    /\ event_queue' = << >>
    /\ unfinished_tasks' = 0
    /\ dispatch' = "none"
    /\ delivered' = << >>
    /\ callback_errors' = 0

\* lines 334-342: parse and normalize the input, validate the run context, up
\* to "await resolve_codex()"
BeginCall(input) ==
    LET parsed == _parse_tool_input(ParametersModel(options), input)
        norm   == IF parsed.err # NoError THEN parsed ELSE _normalize_parameters(parsed.val)
        ctxErr == IF options.use_run_context_thread_id
                      THEN _validate_run_context_thread_id_context(context)
                      ELSE NoError
        err    == IF norm.err # NoError THEN norm.err ELSE ctxErr
    IN  /\ pc \in {"idle", "done"}
        /\ calls < MaxCalls
        /\ calls' = calls + 1
        /\ usage_before' = ctx_usage
        /\ args' = IF norm.err = NoError THEN norm.val ELSE NoArgs
        /\ thread' = 0
        /\ call_thread_id' = None
        /\ resolved_thread_id' = None
        /\ resolved_thread_id_holder' = NoHolder
        /\ outcome' = NoOutcome
        /\ exc' = err
        /\ pc' = IF err = NoError THEN "resolve_codex" ELSE "failed"
        /\ ResetConsume
        /\ tool_span_errors' = << >>
        /\ UNCHANGED <<turnVars, execVars, pureVars, cfgVars, taskVars, milestoneVars, sessVars>>

\* lines 358-359: the Thread of the first call becomes the cached one
persisted_thread_never_cached(existing_thread, t) == existing_thread

persisted_thread_cached(existing_thread, t) == IF existing_thread = 0 THEN t ELSE existing_thread

\* lines 343-367: resolve the thread id, get the Thread, up to
\* "await thread.run_streamed(...)"
ResolveThread ==
    LET r == _resolve_call_thread_id(args, context, options.thread_id,
                                     options.use_run_context_thread_id)
        g == IF options.persist_session
                 THEN _get_or_create_persisted_thread(r.val, persisted_thread, threads)
                 ELSE [err |-> NoError, reuse |-> 0]
        created == g.reuse = 0
        t == IF created THEN Len(threads) + 1 ELSE g.reuse
        thrs == IF created THEN Append(threads, _get_thread(r.val)) ELSE threads
    IN  /\ pc = "resolve_codex"
        /\ IF r.err # NoError \/ g.err # NoError
            THEN /\ exc' = IF r.err # NoError THEN r.err ELSE g.err
                 /\ pc' = "failed"
                 /\ call_thread_id' = IF r.err # NoError THEN None ELSE r.val
                 /\ UNCHANGED <<threads, persisted_thread, start_calls, resume_calls,
                                last_resumed_thread_id, thread, resolved_thread_id>>
            ELSE /\ call_thread_id' = r.val
                 /\ threads' = thrs
                 /\ thread' = t
                 /\ start_calls' = IF created /\ ~Truthy(r.val)
                                       THEN start_calls + 1 ELSE start_calls
                 /\ resume_calls' = IF created /\ Truthy(r.val)
                                        THEN resume_calls + 1 ELSE resume_calls
                 /\ last_resumed_thread_id' = IF created /\ Truthy(r.val)
                                                  THEN r.val ELSE last_resumed_thread_id
                 /\ persisted_thread' = IF options.persist_session
                                            THEN persisted_thread_cached(persisted_thread, t)
                                            ELSE persisted_thread
                 /\ resolved_thread_id' = PyOr(thrs[t].id, r.val)
                 /\ pc' = "run_streamed"
                 /\ UNCHANGED exc
        /\ UNCHANGED <<turnVars, execVars, pureVars, traceVars, cfgVars, taskVars, milestoneVars, context, ctx_usage, turns, calls, usage_before, args,
                       resolved_thread_id_holder, outcome, consumeVars, dispVars>>

\* lines 370-381: run_streamed returns the stream; _consume_events starts
\* (lines 1035-1073) and reaches its first wait for an event
RunStreamed ==
    /\ pc = "run_streamed"
    /\ turns' = Append(turns, [thread |-> thread, resume |-> threads[thread].id,
                               outcome |-> "running"])
    /\ consume_thread_id' = ConsumeInitThreadId(threads[thread].id, resolved_thread_id)
    /\ resolved_thread_id_holder' = ConsumeInitHolder(threads[thread].id, resolved_thread_id)
    /\ dispatch' = IF options.on_stream # "none" THEN "waiting" ELSE "none"
    /\ pc' = "loop"
    /\ UNCHANGED <<turnVars, execVars, pureVars, traceVars, cfgVars, taskVars, milestoneVars, context, threads, persisted_thread, start_calls, resume_calls,
                   last_resumed_thread_id, ctx_usage, calls, usage_before, args, thread, call_thread_id,
                   resolved_thread_id, exc, outcome, final_response, usage, active_spans,
                   spans, processed, event_queue, unfinished_tasks, delivered,
                   callback_errors>>

\* thread.run_streamed itself raises
RunStreamedRaises ==
    /\ pc = "run_streamed"
    /\ exc' = ErrStreamException
    /\ pc' = "failed"
    /\ UNCHANGED <<turnVars, execVars, pureVars, traceVars, cfgVars, taskVars, milestoneVars, sessVars, calls, usage_before, args, thread, call_thread_id, resolved_thread_id,
                   resolved_thread_id_holder, outcome, consumeVars, dispVars>>

\* Records how the turn of the current call ended (bookkeeping of the model)
EndTurn(how) ==
    IF turns # << >> /\ turns[Len(turns)].outcome = "running"
        THEN [turns EXCEPT ![Len(turns)].outcome = how]
        ELSE turns

AccountUsage_counting_request(total, u) ==
    IF u # NoUsage THEN UsageAdd(total, _to_agent_usage(u))
    ELSE [total EXCEPT !.requests = @ + 1]

\* lines 386-387: "if usage is not None: ctx.usage.add(_to_agent_usage(usage))"
AccountUsage(total, u) ==
    IF u # NoUsage THEN UsageAdd(total, _to_agent_usage(u)) ELSE total

\* lines 386-396: _consume_events returned
CompleteCall ==
    LET st == IF options.use_run_context_thread_id
                  THEN _store_thread_id_in_run_context(context, outcome.thread_id)
                  ELSE [err |-> NoError, ctx |-> context]
    IN  /\ pc = "returned"
        /\ resolved_thread_id' = outcome.thread_id
        /\ ctx_usage' = AccountUsage(ctx_usage, outcome.usage)
        /\ context' = st.ctx
        /\ turns' = EndTurn("completed")
        /\ IF st.err = NoError
            THEN /\ pc' = "done"
                 /\ outcome' = [outcome EXCEPT !.kind = "result"]
                 /\ UNCHANGED exc
            ELSE /\ pc' = "failed"
                 /\ exc' = st.err
                 /\ UNCHANGED outcome
        /\ UNCHANGED <<turnVars, execVars, pureVars, traceVars, cfgVars, taskVars, milestoneVars, threads, persisted_thread, start_calls, resume_calls,
                       last_resumed_thread_id, calls, usage_before, args, thread, call_thread_id,
                       resolved_thread_id_holder, consumeVars, dispVars>>

\* What failure_error_function(ctx, exc) returns
HandlerResult(kind) == IF kind = "async" THEN <<"handled-async">> ELSE <<"handled">>

\* lines 412-417: the SpanError attached to the current span
ErrNonFatal == "Error running Codex tool (non-fatal)"

attach_error_to_current_span_skipped(errors, e) == errors

attach_error_to_current_span(errors, e) ==
    Append(errors, [message |-> ErrNonFatal, error |-> e])

\* lines 382-384 and 397-422: an exception reached the handler of _on_invoke_tool
FailCall ==
    LET tid == IF pc = "raised" THEN resolved_thread_id_holder ELSE resolved_thread_id
        st  == _try_store_thread_id_in_run_context_after_error(
                   context, tid, options.use_run_context_thread_id)
        e   == IF st.err # NoError THEN st.err ELSE exc
    IN  /\ pc \in {"failed", "raised"}
        /\ resolved_thread_id' = tid
        /\ context' = st.ctx
        /\ pc' = "done"
        /\ turns' = EndTurn("failed")
        /\ IF options.failure_error_function = "none" \/ st.err # NoError
            THEN /\ outcome' = [NoOutcome EXCEPT !.kind = "raised", !.error = e]
                 /\ tool_span_errors' = tool_span_errors
            ELSE /\ outcome' = [NoOutcome EXCEPT !.kind = "handled", !.error = e,
                                    !.response = HandlerResult(options.failure_error_function)]
                 /\ tool_span_errors' = attach_error_to_current_span(tool_span_errors, e)
        /\ UNCHANGED <<turnVars, execVars, pureVars, cfgVars, taskVars, milestoneVars, threads, persisted_thread, start_calls, resume_calls,
                       last_resumed_thread_id, ctx_usage, calls, usage_before, args, thread,
                       call_thread_id, resolved_thread_id_holder, exc, consumeVars, dispVars>>

\* ------------------------------------------------------------------------
\* Specifications
\* ------------------------------------------------------------------------
ConfiguredThreadIds == {None, <<"c">>}

CallOptions ==
    [ persist_session : BOOLEAN,
      use_run_context_thread_id : BOOLEAN,
      thread_id : ConfiguredThreadIds,
      failure_error_function : {"none", "sync", "async"},
      parameters : {"default", "custom"},
      on_stream : {"none"},
      span_data_max_chars : {NoBudget} ]

\* Run contexts a caller may pass in run-context mode
CallContexts ==
    { [kind |-> "dict", value |-> v] : v \in {None, <<" ", "b">>, <<" ">>, NonStr} }
    \cup { [kind |-> k, value |-> None] : k \in CtxKinds \ {"dict"} }

\* ------------------------------------------------------------------------
\* Output-schema staging, Exec adapter and Thread turn
\* (output_schema_file.py, exec.py, thread.py)
\* ------------------------------------------------------------------------
\* One line of subprocess output: blank, not JSON, or the JSON of an event;
\* ws tells whether white space (the newline) surrounds the text.
Line(kind, ws, ev) == [kind |-> kind, ws |-> ws, ev |-> ev]
NoEvent == Event("none", None, NoItem, NoUsage, "")
BlankLine == Line("blank", TRUE, NoEvent)
GarbageLine == Line("garbage", TRUE, NoEvent)
JsonLine(ev) == Line("json", TRUE, ev)

\* Events the subprocess reports during a turn
TurnEvents ==
    { ThreadStarted(<<"n">>), TurnCompleted(Usage1), TurnFailed("boom"), ThreadError("lost") }

OutputLines == {BlankLine, GarbageLine} \cup { JsonLine(ev) : ev \in TurnEvents }

\* CodexExec.run: each line is decoded and stripped, and yielded if non-empty
StripLine(line) == [line EXCEPT !.ws = FALSE]
IsEmptyLine(line) == line.kind = "blank" /\ ~line.ws

RECURSIVE YieldedOf(_)
YieldedOf(lines) ==
    IF lines = << >> THEN << >>
    ELSE IF IsEmptyLine(StripLine(Head(lines))) THEN YieldedOf(Tail(lines))
    ELSE <<StripLine(Head(lines))>> \o YieldedOf(Tail(lines))

\* Thread turn: a yielded line is parsed as JSON into an event
_parse_event(line) == IF line.kind = "json" THEN Ok(line.ev) ELSE Raise(ErrParse)

\* TurnOptions: output_schema is None or a JSON object, idle_timeout_seconds
\* is None or a positive time
NoIdleTimeout == [none |-> TRUE, seconds |-> 0]
IdleTimeout(n) == [none |-> FALSE, seconds |-> n]
TurnOptionsSet ==
    [ output_schema : {"none", "object"},
      idle_timeout_seconds : {NoIdleTimeout} \cup { IdleTimeout(n) : n \in 1..MaxIdleTicks } ]

StorageSet == [dump_raises : BOOLEAN, rmtree_raises : BOOLEAN]

\* OutputSchemaFile before create_output_schema_file ran
NoSchemaFile == [dir |-> "none", cleanup_calls |-> 0, rmtree_calls |-> 0]

\* shutil.rmtree on the temporary directory
rmtree(file, st) ==
    [err |-> IF st.rmtree_raises THEN ErrRmtree ELSE NoError,
     file |-> [file EXCEPT !.rmtree_calls = @ + 1,
                           !.dir = IF st.rmtree_raises THEN @ ELSE "removed"]]

\* OutputSchemaFile.cleanup: removes the temporary directory, swallowing
\* every error; a no-op when no schema was staged
cleanup_propagating(file, st) ==
    LET called == [file EXCEPT !.cleanup_calls = @ + 1]
    IN  IF file.dir = "none" THEN [err |-> NoError, file |-> called]
        ELSE rmtree(called, st)

cleanup(file, st) ==
    LET called == [file EXCEPT !.cleanup_calls = @ + 1]
    IN  IF file.dir = "none" THEN [err |-> NoError, file |-> called]
        ELSE [err |-> NoError, file |-> rmtree(called, st).file]

\* create_output_schema_file: None stages nothing; otherwise a fresh
\* temporary directory receives the schema, and a failed write releases the
\* directory before the error propagates.
create_output_schema_file(schema, st) ==
    IF schema = "none" THEN [err |-> NoError, file |-> NoSchemaFile]
    ELSE LET made == [NoSchemaFile EXCEPT !.dir = "present"]
         IN  IF st.dump_raises
                 THEN [err |-> ErrSchemaWrite, file |-> cleanup(made, st).file]
                 ELSE [err |-> NoError, file |-> made]

\* The subprocess: returncode is meaningful once alive is FALSE
NoProcess ==
    [spawned |-> FALSE, alive |-> FALSE, stdin |-> FALSE, stdout |-> FALSE,
     stdin_closed |-> FALSE, killed |-> 0, terminated |-> 0, returncode |-> 0]
SpawnedProcess(stdin_present, stdout_present) ==
    [NoProcess EXCEPT !.spawned = TRUE, !.alive = TRUE,
                      !.stdin = stdin_present, !.stdout = stdout_present]
kill_skipped(p) == p

kill(p) == [p EXCEPT !.killed = @ + 1, !.alive = FALSE, !.returncode = -9]
terminate(p) == [p EXCEPT !.terminated = @ + 1]

\* The state of the Thread turn and the Exec adapter while no turn runs
TurnIdle ==
    /\ turn_options = [output_schema |-> "none", idle_timeout_seconds |-> NoIdleTimeout]
    /\ storage = [dump_raises |-> FALSE, rmtree_raises |-> FALSE]
    /\ schema_file = NoSchemaFile
    /\ turn_pc = "none"
    /\ turn_error = NoError
    /\ turn_events = << >>
    /\ signal = FALSE
    /\ idle_elapsed = 0
    /\ exec_pc = "none"
    /\ exec_error = NoError
    /\ watch_pc = "none"
    /\ process = NoProcess
    /\ pipe = << >>
    /\ written = << >>
    /\ yielded = << >>

\* What a turn leaves alone: the tool adapter's state (the Thread excepted)
adapterVars == <<cfgVars, taskVars, milestoneVars, context, persisted_thread, start_calls, resume_calls,
                 last_resumed_thread_id, ctx_usage, turns, callVars, consumeVars, dispVars,
                 pureVars, traceVars>>

\* The idle timer of the turn has run out
IdleExpired ==
    /\ ~turn_options.idle_timeout_seconds.none
    /\ idle_elapsed >= turn_options.idle_timeout_seconds.seconds

\* The turn ends (finally: cleanup()), with the error err unless it is NoError
TurnEnds(err) ==
    LET c == cleanup(schema_file, storage)
    IN  /\ schema_file' = c.file
        /\ turn_error' = IF err # NoError THEN err ELSE c.err
        /\ turn_pc' = IF err = NoError /\ c.err = NoError THEN "done" ELSE "failed"

\* Thread turn, up to the first wait for an event: stage the output schema
\* and start the Exec adapter
StartTurn ==
    LET r == create_output_schema_file(turn_options.output_schema, storage)
    IN  /\ turn_pc = "start"
        /\ schema_file' = r.file
        /\ turn_error' = r.err
        /\ turn_pc' = IF r.err = NoError THEN "running" ELSE "failed"
        /\ exec_pc' = IF r.err = NoError THEN "spawn" ELSE exec_pc
        /\ idle_elapsed' = 0
        /\ UNCHANGED <<adapterVars, threads, turn_options, storage, turn_events, signal,
                       exec_error, watch_pc, process, pipe, written, yielded>>

\* CodexExec.run: launch the subprocess, start the signal watcher, write the
\* prompt to stdin and close it
ExecStart(stdin_present, stdout_present) ==
    LET p == SpawnedProcess(stdin_present, stdout_present)
    IN  /\ turn_pc = "running"
        /\ exec_pc = "spawn"
        /\ ~IdleExpired
        /\ watch_pc' = "waiting"
        /\ IF ~p.stdin
              THEN /\ process' = kill(p)
                   /\ exec_pc' = "failed"
                   /\ exec_error' = ErrNoStdin
                   /\ TurnEnds(ErrNoStdin)
              ELSE /\ process' = [p EXCEPT !.stdin_closed = TRUE]
                   /\ exec_pc' = "stdin_done"
                   /\ UNCHANGED <<exec_error, schema_file, turn_error, turn_pc>>
        /\ UNCHANGED <<adapterVars, threads, turn_options, storage, turn_events, signal,
                       idle_elapsed, pipe, written, yielded>>

\* CodexExec.run: after the prompt was flushed, the output channel is checked
ExecOpenStdout ==
    /\ turn_pc = "running"
    /\ exec_pc = "stdin_done"
    /\ ~IdleExpired
    /\ IF ~process.stdout
          THEN /\ process' = kill(process)
               /\ exec_pc' = "failed"
               /\ exec_error' = ErrNoStdout
               /\ TurnEnds(ErrNoStdout)
          ELSE /\ exec_pc' = "reading"
               /\ UNCHANGED <<process, exec_error, schema_file, turn_error, turn_pc>>
    /\ UNCHANGED <<adapterVars, threads, turn_options, storage, turn_events, signal,
                   idle_elapsed, watch_pc, pipe, written, yielded>>

\* The error a received event ends the turn with ("continue" = the turn goes on)
TurnEventOutcome(ev) ==
    CASE ev.type = "turn.completed" -> NoError
      [] ev.type = "turn.failed" -> "RuntimeError: " \o ev.message
      [] ev.type = "error" -> "RuntimeError: Codex stream error: " \o ev.message
      [] OTHER -> "continue"

\* CodexExec.run reads the next line; a non-empty line is yielded to the
\* Thread turn, which parses it, resets the idle timer and handles the event
ExecReadLine ==
    LET line == StripLine(Head(pipe))
        parsed == _parse_event(line)
        ev == parsed.val
    IN  /\ turn_pc = "running"
        /\ exec_pc = "reading"
        /\ ~IdleExpired
        /\ pipe # << >>
        /\ pipe' = Tail(pipe)
        /\ IF IsEmptyLine(line)
              THEN UNCHANGED <<yielded, threads, turn_events, idle_elapsed, schema_file,
                               turn_error, turn_pc>>
              ELSE /\ yielded' = Append(yielded, line)
                   /\ idle_elapsed' = 0
                   /\ IF parsed.err # NoError
                         THEN /\ TurnEnds(parsed.err)
                              /\ UNCHANGED <<threads, turn_events>>
                         ELSE /\ threads' = [threads EXCEPT ![thread] = ThreadObserve(@, ev)]
                              /\ turn_events' = Append(turn_events, ev)
                              /\ IF TurnEventOutcome(ev) = "continue"
                                    THEN UNCHANGED <<schema_file, turn_error, turn_pc>>
                                    ELSE TurnEnds(TurnEventOutcome(ev))
        /\ UNCHANGED <<adapterVars, turn_options, storage, signal, exec_pc, exec_error,
                       watch_pc, process, written>>

\* CodexExec.run: the output ended; the exit of the subprocess is awaited, the
\* watcher is cancelled and a nonzero exit code is an error
ExecEof ==
    LET err == IF process.returncode # 0 THEN ErrExitCode ELSE NoError
    IN  /\ turn_pc = "running"
        /\ exec_pc = "reading"
        /\ ~IdleExpired
        /\ pipe = << >>
        /\ ~process.alive
        /\ exec_pc' = IF err = NoError THEN "done" ELSE "failed"
        /\ exec_error' = err
        /\ watch_pc' = IF watch_pc = "waiting" THEN "cancelled" ELSE watch_pc
        /\ TurnEnds(err)
        /\ UNCHANGED <<adapterVars, threads, turn_options, storage, turn_events, signal,
                       idle_elapsed, process, pipe, written, yielded>>

\* _watch_signal: once the signal is set, a subprocess that still runs is
\* asked to terminate
_watch_signal_kills(p) == IF p.alive THEN kill(p) ELSE p

_watch_signal(p) == IF p.alive THEN terminate(p) ELSE p

WatchSignal ==
    /\ watch_pc = "waiting"
    /\ signal
    /\ watch_pc' = "done"
    /\ process' = _watch_signal(process)
    /\ UNCHANGED <<adapterVars, threads, turnVars, exec_pc, exec_error, pipe, written, yielded>>

\* The caller sets the cancellation signal during the turn
SetSignal ==
    /\ turn_pc = "running"
    /\ ~signal
    /\ signal' = TRUE
    /\ UNCHANGED <<adapterVars, threads, turn_options, storage, schema_file, turn_pc,
                   turn_error, turn_events, idle_elapsed, execVars>>

\* The subprocess writes one more line to its output
ProcessWrites(line) ==
    /\ process.alive
    /\ process.stdout
    /\ Len(written) < MaxLines
    /\ pipe' = Append(pipe, line)
    /\ written' = Append(written, line)
    /\ UNCHANGED <<adapterVars, threads, turnVars, exec_pc, exec_error, watch_pc, process,
                   yielded>>

\* The subprocess exits, closing its output
ProcessExits(rc) ==
    /\ process.alive
    /\ process' = [process EXCEPT !.alive = FALSE, !.returncode = rc]
    /\ UNCHANGED <<adapterVars, threads, turnVars, exec_pc, exec_error, watch_pc, pipe,
                   written, yielded>>

\* Time passes while the turn waits for its next event
Tick ==
    /\ turn_pc = "running"
    /\ ~turn_options.idle_timeout_seconds.none
    /\ ~IdleExpired
    /\ idle_elapsed' = idle_elapsed + 1
    /\ UNCHANGED <<adapterVars, threads, turn_options, storage, schema_file, turn_pc,
                   turn_error, turn_events, signal, execVars>>

\* Thread turn: the wait for the next event timed out; the signal is set and
\* the turn raises
IdleExpire_signal_untouched == signal

IdleExpire_signal == TRUE

IdleExpire ==
    /\ turn_pc = "running"
    /\ IdleExpired
    /\ signal' = IdleExpire_signal
    /\ TurnEnds(ErrIdle)
    /\ UNCHANGED <<adapterVars, threads, turn_options, storage, turn_events, idle_elapsed,
                   execVars>>

\* The state after codex_tool(...) returned the tool, before the first call
Init ==
    /\ options \in CallOptions
    /\ context \in IF options.use_run_context_thread_id
                       THEN CallContexts
                       ELSE {[kind |-> "none", value |-> None]}
    /\ threads = << >>
    /\ persisted_thread = 0
    /\ start_calls = 0
    /\ resume_calls = 0
    /\ last_resumed_thread_id = None
    /\ ctx_usage = ZeroUsage
    /\ turns = << >>
    /\ pc = "idle"
    /\ calls = 0
    /\ usage_before = ZeroUsage
    /\ args = NoArgs
    /\ thread = 0
    /\ call_thread_id = None
    /\ resolved_thread_id = None
    /\ resolved_thread_id_holder = NoHolder
    /\ exc = NoError
    /\ outcome = NoOutcome
    /\ final_response = EmptyStr
    /\ usage = NoUsage
    /\ consume_thread_id = None
    /\ active_spans = NoSpans
    /\ spans = << >>
    /\ processed = << >>
    /\ event_queue = << >>
    /\ unfinished_tasks = 0
    /\ dispatch = "none"
    /\ delivered = << >>
    /\ callback_errors = 0
    /\ tool_span_errors = << >>
    /\ tasks = NoTasks
    /\ MilestoneIdle
    /\ TurnIdle
    /\ PureIdle

Next ==
    \/ \E input \in CallInputs : BeginCall(input)
    \/ ResolveThread
    \/ RunStreamed
    \/ RunStreamedRaises
    \/ (Len(processed) < MaxEvents /\ \E ev \in CallEvents : ConsumeEvent(ev))
    \/ StreamEnd
    \/ StreamRaises
    \/ CompleteCall
    \/ FailCall

Spec == Init /\ [][Next]_vars

ConsumeOptions ==
    [ persist_session : {FALSE},
      use_run_context_thread_id : {FALSE},
      thread_id : {None},
      failure_error_function : {"none"},
      parameters : {"default"},
      on_stream : {"none", "sync", "async"},
      span_data_max_chars : {NoBudget, Budget(1)} ]

\* The state when _consume_events(events, args, ctx, thread, on_stream, ...)
\* has run up to its first wait for an event
InitConsume ==
    /\ options \in ConsumeOptions
    /\ context = [kind |-> "none", value |-> None]
    /\ threads \in {<<start_thread>>, <<resume_thread(<<"a">>)>>}
    /\ persisted_thread = 0
    /\ start_calls = 0
    /\ resume_calls = 0
    /\ last_resumed_thread_id = None
    /\ ctx_usage = ZeroUsage
    /\ turns = << >>
    /\ pc = "loop"
    /\ calls = 1
    /\ usage_before = ZeroUsage
    /\ args \in {NoArgs, [inputs |-> Inputs(<<NormalizedInput(TextItem)>>), thread_id |-> None]}
    /\ thread = 1
    /\ call_thread_id = None
    /\ resolved_thread_id = None
    /\ \E h \in (IF threads[1].id = None THEN {NoHolder, None, <<"c">>} ELSE {<<"c">>}) :
        /\ resolved_thread_id_holder = ConsumeInitHolder(threads[1].id, h)
        /\ consume_thread_id = ConsumeInitThreadId(threads[1].id, h)
    /\ exc = NoError
    /\ outcome = NoOutcome
    /\ final_response = EmptyStr
    /\ usage = NoUsage
    /\ active_spans = NoSpans
    /\ spans = << >>
    /\ processed = << >>
    /\ event_queue = << >>
    /\ unfinished_tasks = 0
    /\ dispatch = IF options.on_stream # "none" THEN "waiting" ELSE "none"
    /\ delivered = << >>
    /\ callback_errors = 0
    /\ tool_span_errors = << >>
    /\ tasks = NoTasks
    /\ MilestoneIdle
    /\ TurnIdle
    /\ PureIdle

\* The events the stream of a _consume_events run is drawn from
ConsumeAlphabet == IF options.on_stream = "none" THEN StreamEvents ELSE CallbackEvents

NextConsume ==
    \/ (Len(processed) < MaxStreamEvents /\ \E ev \in ConsumeAlphabet : ConsumeEvent(ev))
    \/ StreamEnd
    \/ StreamRaises
    \/ DispatchNext
    \/ \E raises \in BOOLEAN : CallbackDone(raises)
    \/ JoinDone

SpecConsume == InitConsume /\ [][NextConsume]_vars

\* The state when a Thread turn (Thread.run / run_streamed) is entered
InitTurn ==
    /\ options \in { o \in ConsumeOptions :
                        o.on_stream = "none" /\ o.span_data_max_chars = NoBudget }
    /\ context = [kind |-> "none", value |-> None]
    /\ threads = <<start_thread>>
    /\ persisted_thread = 0
    /\ start_calls = 0
    /\ resume_calls = 0
    /\ last_resumed_thread_id = None
    /\ ctx_usage = ZeroUsage
    /\ turns = << >>
    /\ pc = "idle"
    /\ calls = 0
    /\ usage_before = ZeroUsage
    /\ args = NoArgs
    /\ thread = 1
    /\ call_thread_id = None
    /\ resolved_thread_id = None
    /\ resolved_thread_id_holder = NoHolder
    /\ exc = NoError
    /\ outcome = NoOutcome
    /\ final_response = EmptyStr
    /\ usage = NoUsage
    /\ consume_thread_id = None
    /\ active_spans = NoSpans
    /\ spans = << >>
    /\ processed = << >>
    /\ event_queue = << >>
    /\ unfinished_tasks = 0
    /\ dispatch = "none"
    /\ delivered = << >>
    /\ callback_errors = 0
    /\ tool_span_errors = << >>
    /\ tasks = NoTasks
    /\ MilestoneIdle
    /\ turn_options \in TurnOptionsSet
    /\ storage \in StorageSet
    /\ schema_file = NoSchemaFile
    /\ turn_pc = "start"
    /\ turn_error = NoError
    /\ turn_events = << >>
    /\ signal = FALSE
    /\ idle_elapsed = 0
    /\ exec_pc = "none"
    /\ exec_error = NoError
    /\ watch_pc = "none"
    /\ process = NoProcess
    /\ pipe = << >>
    /\ written = << >>
    /\ yielded = << >>
    /\ PureIdle

NextTurn ==
    \/ StartTurn
    \/ \E stdin_present, stdout_present \in BOOLEAN : ExecStart(stdin_present, stdout_present)
    \/ ExecOpenStdout
    \/ ExecReadLine
    \/ ExecEof
    \/ WatchSignal
    \/ SetSignal
    \/ \E line \in OutputLines : ProcessWrites(line)
    \/ \E rc \in {0, 2} : ProcessExits(rc)
    \/ Tick
    \/ IdleExpire

SpecTurn == InitTurn /\ [][NextTurn]_vars

\* ------------------------------------------------------------------------
\* The span-data budget functions, applied to one mapping and one value
\* ------------------------------------------------------------------------
\* The tool adapter, the turn and the Exec adapter at rest
AdapterIdle ==
    /\ options \in { o \in ConsumeOptions :
                        o.on_stream = "none" /\ o.span_data_max_chars = NoBudget }
    /\ context = [kind |-> "none", value |-> None]
    /\ threads = << >>
    /\ persisted_thread = 0
    /\ start_calls = 0
    /\ resume_calls = 0
    /\ last_resumed_thread_id = None
    /\ ctx_usage = ZeroUsage
    /\ turns = << >>
    /\ pc = "idle"
    /\ calls = 0
    /\ usage_before = ZeroUsage
    /\ args = NoArgs
    /\ thread = 0
    /\ call_thread_id = None
    /\ resolved_thread_id = None
    /\ resolved_thread_id_holder = NoHolder
    /\ exc = NoError
    /\ outcome = NoOutcome
    /\ final_response = EmptyStr
    /\ usage = NoUsage
    /\ consume_thread_id = None
    /\ active_spans = NoSpans
    /\ spans = << >>
    /\ processed = << >>
    /\ event_queue = << >>
    /\ unfinished_tasks = 0
    /\ dispatch = "none"
    /\ delivered = << >>
    /\ callback_errors = 0
    /\ tool_span_errors = << >>
    /\ tasks = NoTasks
    /\ TurnIdle

InitBudget ==
    /\ AdapterIdle
    /\ MilestoneIdle
    /\ SchemaIdle
    /\ budget_pc = "start"
    /\ budget_data \in BudgetInputs
    /\ budget_limit \in BudgetLimits
    /\ budget_result = EmptyData
    /\ value_in = NoneV
    /\ value_out = NoneV
    /\ budget_dropped = << >>
    /\ command_item = NoCommandItem

\* trimmed = _enforce_span_data_budget(data, max_chars)
EnforceBudget ==
    /\ budget_pc = "start"
    /\ budget_result' = _enforce_span_data_budget(budget_data, budget_limit)
    /\ budget_dropped' = DroppedKeys(budget_data, budget_limit)
    /\ budget_pc' = "enforced"
    /\ UNCHANGED <<cfgVars, taskVars, milestoneVars, sessVars, callVars, consumeVars, dispVars, turnVars, execVars, traceVars,
                   schemaVars, budget_data, budget_limit, value_in, value_out, command_item>>

\* truncated = _truncate_span_value(value, max_chars)
TruncateValue(value) ==
    /\ budget_pc = "enforced"
    /\ value_in' = value
    /\ value_out' = _truncate_span_value(value, budget_limit)
    /\ budget_pc' = "done"
    /\ UNCHANGED <<cfgVars, taskVars, milestoneVars, sessVars, callVars, consumeVars, dispVars, turnVars, execVars, traceVars,
                   schemaVars, budget_data, budget_limit, budget_result, budget_dropped,
                   command_item>>

NextBudget ==
    \/ EnforceBudget
    \/ \E value \in ValueInputs : TruncateValue(value)

SpecBudget == InitBudget /\ [][NextBudget]_vars

\* ------------------------------------------------------------------------
\* Output schema resolution, applied to one output_schema option when the
\* tool is constructed
\* ------------------------------------------------------------------------
BudgetIdle ==
    /\ budget_pc = "none"
    /\ budget_data = EmptyData
    /\ budget_limit = NoBudget
    /\ budget_result = EmptyData
    /\ value_in = NoneV
    /\ value_out = NoneV
    /\ budget_dropped = << >>
    /\ command_item = NoCommandItem

InitSchema ==
    /\ AdapterIdle
    /\ MilestoneIdle
    /\ BudgetIdle
    /\ schema_pc = "start"
    /\ schema_option \in SchemaOptions
    /\ schema_resolved = Ok(NoSchema)

\* validated_output_schema = _resolve_output_schema(resolved_options.output_schema)
ResolveOutputSchema ==
    /\ schema_pc = "start"
    /\ schema_resolved' = _resolve_output_schema(schema_option)
    /\ schema_pc' = "done"
    /\ UNCHANGED <<cfgVars, taskVars, milestoneVars, sessVars, callVars, consumeVars, dispVars, turnVars, execVars, traceVars,
                   budgetVars, schema_option>>

NextSchema == ResolveOutputSchema

SpecSchema == InitSchema /\ [][NextSchema]_vars

\* ------------------------------------------------------------------------
\* Properties
\* ------------------------------------------------------------------------
\* The thread id the precedence rule selects for the current call, stated
\* from the rule: explicit argument, then run context, then configured default.
ContextThreadId ==
    IF options.use_run_context_thread_id /\ IsStr(context.value)
            /\ Strip(context.value) # EmptyStr
        THEN Strip(context.value) ELSE None

ContextValueIsNotAString ==
    options.use_run_context_thread_id /\ context.value # None /\ ~IsStr(context.value)

ExpectedThreadId ==
    IF Truthy(args.thread_id) THEN args.thread_id
    ELSE IF ContextThreadId # None THEN ContextThreadId
    ELSE options.thread_id

\* C1: the thread id a call resolves follows the precedence explicit argument >
\* run-context value (run-context mode only) > configured default > none, and a
\* call that has no cached Thread to reuse creates its Thread from that id:
\* resume_thread(id) when there is one, start_thread() otherwise.
C1_Precedence ==
    [][ (pc = "resolve_codex" /\ pc' = "run_streamed") =>
            /\ call_thread_id' = ExpectedThreadId
            /\ (persisted_thread = 0 => Len(threads') = Len(threads) + 1)
            /\ (Len(threads') > Len(threads) =>
                    /\ thread' = Len(threads')
                    /\ threads'[thread'].id =
                           (IF Truthy(ExpectedThreadId) THEN ExpectedThreadId ELSE None)
                    /\ (Truthy(ExpectedThreadId) =>
                            /\ resume_calls' = resume_calls + 1
                            /\ start_calls' = start_calls
                            /\ last_resumed_thread_id' = ExpectedThreadId)
                    /\ (~Truthy(ExpectedThreadId) =>
                            /\ start_calls' = start_calls + 1
                            /\ resume_calls' = resume_calls)) ]_vars

\* An explicit argument, a run-context id and a configured default all present:
\* the explicit argument was chosen.
C1_Witness ==
    /\ pc = "run_streamed"
    /\ options.use_run_context_thread_id
    /\ args.thread_id = <<"a">>
    /\ ContextThreadId = <<"b">>
    /\ options.thread_id = <<"c">>
    /\ call_thread_id = <<"a">>
    /\ last_resumed_thread_id = <<"a">>

IsAgentMessageCompleted(ev) ==
    ev.type = "item.completed" /\ ev.item.type = "agent_message"

LastAgentIndex(evs) ==
    IF AgentMessageSeen(evs)
        THEN CHOOSE i \in 1..Len(evs) :
                /\ IsAgentMessageCompleted(evs[i])
                /\ \A j \in (i + 1)..Len(evs) : ~IsAgentMessageCompleted(evs[j])
        ELSE 0

\* C2 as claimed: the response of a turn that ended without failure is the text
\* of the last completed agent message, or the default if none was completed.
C2_Original ==
    pc = "returned" =>
        outcome.response =
            (IF AgentMessageSeen(processed)
                THEN processed[LastAgentIndex(processed)].item.text
                ELSE IF ~args.inputs.none THEN DefaultWithInputs ELSE DefaultNoInputs)

\* C2 (amended): the response of a turn that ended without failure is the text
\* of the last completed agent message when that text is non-empty; it is the
\* synthesized default when no agent message was completed or the last one has
\* an empty text.  No response exists before the turn has ended.
C2_FinalResponse ==
    /\ pc = "returned" =>
        outcome.response =
            (IF AgentMessageSeen(processed)
                    /\ processed[LastAgentIndex(processed)].item.text # EmptyStr
                THEN processed[LastAgentIndex(processed)].item.text
                ELSE IF ~args.inputs.none THEN DefaultWithInputs ELSE DefaultNoInputs)
    /\ pc \in {"loop", "join"} => outcome = NoOutcome

\* A turn whose last agent message is empty, after a non-empty one, has ended
C2_Witness ==
    /\ pc = "returned"
    /\ Len(processed) = 2
    /\ processed[1] = ItemEvent("item.completed", AgentMessage(<<"x">>))
    /\ processed[2] = ItemEvent("item.completed", AgentMessage(EmptyStr))
    /\ outcome.response = DefaultWithInputs

\* C3: when _consume_events has returned or raised, every span it started has
\* been finished exactly once; no span is ever finished twice.
C3_SpansClosedOnce ==
    /\ \A i \in 1..Len(spans) : spans[i].finished <= 1
    /\ pc \in {"returned", "raised"} => \A i \in 1..Len(spans) : spans[i].finished = 1

\* Contexts whose field under the key can be assigned
CtxAcceptsWrite ==
    context.kind \in {"dict", "pydantic_field", "pydantic_extra", "dataclass",
                      "slots_with_key", "object"}

CtxHoldsThreadId == options.use_run_context_thread_id /\ ContextThreadId # None

\* C4 as claimed: in run-context mode a call that ended with a resolved thread
\* id, successfully or not, leaves that id in the run context under the key.
C4_Original ==
    ( /\ pc = "done"
      /\ options.use_run_context_thread_id
      /\ resolved_thread_id # None ) => context.value = resolved_thread_id

\* C4 (amended): in run-context mode, when the context accepts the assignment,
\* a call that ended with a resolved thread id, successfully or not, leaves that
\* id in the run context under the key; a context that passed the validation
\* but refuses the assignment is left unchanged.  Once the context holds a
\* thread id it keeps holding one, no later call calls start_thread, and a call
\* without an explicit thread_id that creates its Thread resumes the id held.
C4_ThreadIdPersisted ==
    /\ [](( /\ pc = "done"
            /\ options.use_run_context_thread_id
            /\ resolved_thread_id # None ) =>
                IF CtxAcceptsWrite THEN context.value = resolved_thread_id
                ELSE context.value = None)
    /\ [][ CtxHoldsThreadId => (start_calls' = start_calls /\ CtxHoldsThreadId') ]_vars
    /\ [][ ( /\ CtxHoldsThreadId
             /\ pc = "resolve_codex" /\ pc' = "run_streamed"
             /\ ~Truthy(args.thread_id) ) =>
                /\ call_thread_id' = ContextThreadId
                /\ resolved_thread_id' # None
                /\ (Len(threads') > Len(threads) =>
                        /\ threads'[thread'].id = ContextThreadId
                        /\ resume_calls' = resume_calls + 1) ]_vars

\* The first call started a thread, learned its id from thread.started and
\* failed; the second call resumed that id and failed as well.
C4_Witness ==
    /\ pc = "done"
    /\ options.use_run_context_thread_id
    /\ ~options.persist_session
    /\ calls = 2
    /\ Len(turns) = 2
    /\ turns[1].outcome = "failed"
    /\ turns[1].resume = None
    /\ turns[2].resume = <<"n">>
    /\ exc = TurnFailedError("boom")
    /\ context.value = <<"n">>
    /\ start_calls = 1
    /\ resume_calls = 1

\* C5: a call in which an exception was raised ends either with the value the
\* failure handler returned for that exception (handler configured) or by
\* raising that same exception (no handler); a failure to store the thread id
\* on the error path does not change either.  A call without an exception
\* returns its CodexToolResult.
C5_FailureHandling ==
    pc = "done" =>
        IF exc = NoError THEN outcome.kind = "result"
        ELSE IF options.failure_error_function = "none"
            THEN outcome.kind = "raised" /\ outcome.error = exc
            ELSE /\ outcome.kind = "handled"
                 /\ outcome.error = exc
                 /\ outcome.response =
                        (IF options.failure_error_function = "async"
                            THEN <<"handled-async">> ELSE <<"handled">>)

\* A failed turn, a thread id to persist, a context that refuses the
\* assignment, and the handler's value as the result
C5_Witness ==
    /\ pc = "done"
    /\ outcome.kind = "handled"
    /\ exc = TurnFailedError("boom")
    /\ options.use_run_context_thread_id
    /\ context.kind = "readonly_object"
    /\ resolved_thread_id = <<"n">>
    /\ context.value = None

\* C6: with persist_session, at most one Thread is ever created, it is the
\* cached one, and every turn runs on it.
C6_OneThread ==
    options.persist_session =>
        /\ start_calls + resume_calls <= 1
        /\ Len(threads) = start_calls + resume_calls
        /\ (threads # << >> => persisted_thread = 1)
        /\ (thread # 0 => thread = persisted_thread)
        /\ \A i \in 1..Len(turns) : turns[i].thread = persisted_thread

\* The second turn runs on the cached Thread after the first turn failed
C6_Witness ==
    /\ options.persist_session
    /\ Len(turns) = 2
    /\ turns[1].outcome = "failed"
    /\ turns[2].outcome = "running"
    /\ turns[1].thread = turns[2].thread
    /\ pc = "loop"

CachedThreadId == IF persisted_thread = 0 THEN None ELSE threads[persisted_thread].id

ThreadIdMismatch ==
    /\ options.persist_session
    /\ persisted_thread # 0
    /\ (Truthy(args.thread_id) \/ ~ContextValueIsNotAString)
    /\ Truthy(ExpectedThreadId)
    /\ Truthy(CachedThreadId)
    /\ ExpectedThreadId # CachedThreadId

\* C7: with persist_session, a call that supplies a thread id different from
\* the non-empty id of the cached Thread fails with the "already has an active
\* thread" UserError; no turn is run for it, and the cached Thread and its id
\* stay as they were.
C7_MismatchRejected ==
    /\ [][ (pc = "resolve_codex" /\ ThreadIdMismatch) =>
               (pc' = "failed" /\ exc' = ErrActiveThread) ]_vars
    /\ [][ exc' = ErrActiveThread =>
               /\ pc' \in {"failed", "done"}
               /\ thread' = 0
               /\ turns' = turns
               /\ threads' = threads
               /\ persisted_thread' = persisted_thread ]_vars

C7_Witness ==
    /\ pc = "done"
    /\ exc = ErrActiveThread
    /\ outcome.kind = "raised"
    /\ outcome.error = ErrActiveThread
    /\ CachedThreadId = <<"n">>
    /\ call_thread_id = <<"a">>
    /\ Len(turns) = 1

RejectedContextKinds ==
    {"none", "mappingproxy", "pydantic_frozen", "dataclass_frozen", "slots_without_key", "list"}

ExpectedContextError ==
    IF context.kind = "none" THEN ErrCtxNone
    ELSE IF context.kind = "mappingproxy" THEN ErrCtxImmutableMapping
    ELSE IF context.kind = "pydantic_frozen" THEN ErrCtxFrozenModel
    ELSE IF context.kind = "dataclass_frozen" THEN ErrCtxFrozenDataclass
    ELSE IF context.kind = "slots_without_key" THEN ErrCtxNoSlot
    ELSE ErrCtxNotWritable

\* C8: in run-context mode a call whose context is None, an immutable mapping,
\* a frozen Pydantic model, a frozen dataclass, a slots-only object without the
\* key, or an object without attribute storage fails before any thread is
\* started or resumed and leaves the context unchanged; the error is the
\* UserError of the context validation unless the input itself was rejected.
C8_ContextRejected ==
    (options.use_run_context_thread_id /\ context.kind \in RejectedContextKinds) =>
        /\ pc \in {"idle", "failed", "done"}
        /\ start_calls = 0 /\ resume_calls = 0
        /\ threads = << >> /\ thread = 0 /\ turns = << >>
        /\ context.value = None
        /\ pc \in {"failed", "done"} =>
               exc \in {ExpectedContextError, ModelBehaviorError, ErrInputsMissing}
        /\ (pc = "done" =>
               /\ outcome.kind \in {"raised", "handled"}
               /\ outcome.error = exc)

C8_Witness ==
    /\ options.use_run_context_thread_id
    /\ context.kind = "dataclass_frozen"
    /\ pc = "done"
    /\ calls = 2
    /\ exc = ErrCtxFrozenDataclass
    /\ outcome.kind = "raised"

IsPrefix(a, b) == Len(a) <= Len(b) /\ a = SubSeq(b, 1, Len(a))

\* C9: with an on_stream callback, the events handed to the callback are at any
\* time a prefix of the events the stream loop has processed, in the same order,
\* and when _consume_events returns or raises the callback has received every
\* processed event exactly once.
C9_CallbackOrder ==
    options.on_stream # "none" =>
        /\ IsPrefix(delivered, processed)
        /\ (pc \in {"returned", "raised"} => delivered = processed)

C9_Witness ==
    /\ options.on_stream = "async"
    /\ pc = "raised"
    /\ Len(processed) = 3
    /\ delivered = processed
    /\ processed[1] # processed[2]
    /\ processed[3].type = "turn.failed"

\* C10: the stream loop never waits for the callback: while it waits for the
\* next event, putting an event on the queue would not block and the next
\* event can be processed, whatever the dispatcher and a running callback do.
C10_NeverWaitsForCallback ==
    (pc = "loop" /\ options.on_stream # "none") =>
        /\ ~PutWouldBlock(event_queue)
        /\ ENABLED ConsumeEvent(UnknownEvent)

LastUsage(evs) ==
    IF \E i \in 1..Len(evs) : evs[i].type = "turn.completed"
        THEN evs[CHOOSE i \in 1..Len(evs) :
                    /\ evs[i].type = "turn.completed"
                    /\ \A j \in (i + 1)..Len(evs) : evs[j].type # "turn.completed"].usage
        ELSE NoUsage

\* C11: an exception raised by the on_stream callback is caught and logged and
\* never propagated: the dispatcher goes on with the later events (every
\* processed event has been handed to the callback when the turn ends), the
\* step in which the callback raises changes nothing of the turn's state, and
\* the turn's response, usage and error are those the events alone determine.
C11_CallbackErrorsContained ==
    /\ [](options.on_stream # "none" =>
            /\ dispatch # "crashed"
            /\ exc # ErrCallback
            /\ (pc \in {"returned", "raised"} => delivered = processed)
            /\ (pc = "returned" =>
                    /\ outcome.usage = LastUsage(processed)
                    /\ outcome.thread_id = consume_thread_id
                    /\ outcome.response =
                           FinalResponse(IF AgentMessageSeen(processed)
                                             THEN processed[LastAgentIndex(processed)].item.text
                                             ELSE EmptyStr,
                                         args, AgentMessageSeen(processed)))
            /\ (pc = "raised" =>
                    \/ exc = ErrStreamException
                    \/ /\ processed # << >>
                       /\ exc = EventError(processed[Len(processed)])))
    /\ [][ callback_errors' # callback_errors =>
              /\ callback_errors' = callback_errors + 1
              /\ dispatch' = "waiting"
              /\ UNCHANGED <<sessVars, callVars, consumeVars, event_queue, delivered>> ]_vars

\* The callback raised for both events of a turn that ended with a response
C11_Witness ==
    /\ pc = "returned"
    /\ options.on_stream = "sync"
    /\ callback_errors = 2
    /\ Len(processed) = 2
    /\ delivered = processed
    /\ processed[1] = ItemEvent("item.completed", AgentMessage(<<"x">>))
    /\ processed[2] = TurnCompleted(Usage1)
    /\ outcome.response = <<"x">>
    /\ outcome.usage = Usage1

\* The caller's counter after one completed turn with usage u was accounted
UsageAfterTurn(before, u) ==
    [requests         |-> before.requests + 1,
     input_tokens     |-> before.input_tokens + u.input_tokens,
     output_tokens    |-> before.output_tokens + u.output_tokens,
     total_tokens     |-> before.total_tokens + u.input_tokens + u.output_tokens,
     cached_tokens    |-> before.cached_tokens + u.cached_input_tokens,
     reasoning_tokens |-> before.reasoning_tokens]

\* C12 as claimed: a call that returns the result of a completed turn has
\* increased the caller's usage counter once, by the fixed mapping of the turn's
\* usage; a call that fails has left the counter unchanged.
C12_Original ==
    pc = "done" =>
        ctx_usage = IF outcome.kind = "result" /\ outcome.usage # NoUsage
                        THEN UsageAfterTurn(usage_before, outcome.usage)
                        ELSE usage_before

\* The turn of the current call completed with usage and the usage was added:
\* the call returned its result, or it failed afterwards, while storing the
\* thread id in the run context
TurnAccounted ==
    /\ usage # NoUsage
    /\ \/ pc = "done" /\ outcome.kind = "result"
       \/ pc \in {"failed", "done"} /\ exc = ErrCtxStore

\* C12 (amended): the caller's usage counter is increased exactly once per call
\* whose turn completed with usage - by requests = 1, input tokens, output
\* tokens, total = input + output, cached input tokens as cached tokens and
\* reasoning tokens = 0 - and is left unchanged by a call that fails before or
\* during its turn; a call that fails after its completed turn, while storing
\* the thread id in the run context, has already added the turn's usage.
C12_UsageAccounting ==
    /\ (pc \in {"resolve_codex", "run_streamed", "loop", "join", "returned", "raised"}
            => ctx_usage = usage_before)
    /\ (pc \in {"failed", "done"}
            => ctx_usage = IF TurnAccounted THEN UsageAfterTurn(usage_before, usage)
                           ELSE usage_before)

\* A failed call followed by a call whose turn completed
C12_Witness ==
    /\ pc = "done"
    /\ calls = 2
    /\ Len(turns) = 2
    /\ turns[1].outcome = "failed"
    /\ outcome.kind = "result"
    /\ outcome.usage = Usage1
    /\ ctx_usage = [requests |-> 1, input_tokens |-> 2, output_tokens |-> 3,
                    total_tokens |-> 5, cached_tokens |-> 1, reasoning_tokens |-> 0]

IsFailureEvent(ev) == ev.type \in {"turn.failed", "error"}

\* The error text for a failure event, with the message the subprocess supplied
FailureText(ev) ==
    IF ev.type = "error" THEN "UserError: Codex stream error: " \o ev.message
    ELSE IF ev.message = "" THEN "UserError: Codex turn failed"
    ELSE "UserError: Codex turn failed: " \o ev.message

\* C13: a turn.failed or error event ends the turn with an error that carries
\* the message of the event; it is the last event processed, and
\* _consume_events produces no result.
C13_FailureEventEndsTurn ==
    \A i \in 1..Len(processed) :
        IsFailureEvent(processed[i]) =>
            /\ i = Len(processed)
            /\ pc \in {"join", "raised"}
            /\ exc = FailureText(processed[i])
            /\ outcome = NoOutcome

\* turn.failed arrives after an agent message and a turn.completed event
C13_Witness ==
    /\ pc = "raised"
    /\ processed = << ItemEvent("item.completed", AgentMessage(<<"x">>)),
                      TurnCompleted(Usage1), TurnFailed("boom") >>
    /\ exc = "UserError: Codex turn failed: boom"
    /\ outcome = NoOutcome

\* The event the stream loop handled in this step, if it handled one
EventHandled == Len(processed') = Len(processed) + 1

\* C14: a Thread's identifier, once known (from resume_thread or from a
\* thread.started event), never changes over later events and turns; the
\* identifier of an unstarted Thread is set once, by the first thread.started
\* event its turn loop observes, to the id of that event.
C14_ThreadIdStable ==
    [][ /\ Len(threads') >= Len(threads)
        /\ \A i \in 1..Len(threads) :
              /\ threads[i].id # None => threads'[i].id = threads[i].id
              /\ (threads[i].id = None /\ threads'[i].id # None) =>
                    /\ i = thread
                    /\ EventHandled
                    /\ processed'[Len(processed')] = ThreadStarted(threads'[i].id)
        /\ ( /\ EventHandled
             /\ processed'[Len(processed')].type = "thread.started"
             /\ threads[thread].id = None ) =>
                threads'[thread].id = processed'[Len(processed')].thread_id ]_vars

\* A Thread that learned its id "n" in its first turn observes a thread.started
\* event with another id in its second turn
C14_Witness ==
    /\ options.persist_session
    /\ calls = 2
    /\ Len(turns) = 2
    /\ Len(threads) = 1
    /\ start_calls = 1
    /\ threads[1].id = <<"n">>
    /\ processed = << ThreadStarted(<<"a">>) >>

\* C15: in a turn with an idle timeout, the turn raises the idle-timeout
\* error exactly when a whole timeout has passed since the turn started or
\* since the last received event, and the cancellation signal is then set:
\* the error is only ever raised with the timer at the timeout, a turn whose
\* timer ran out can do nothing but raise it, and every received event puts
\* the timer back to zero, so a stream with shorter gaps never times out.
C15_IdleTimeout ==
    /\ [](turn_error = ErrIdle =>
            /\ turn_pc = "failed"
            /\ signal
            /\ ~turn_options.idle_timeout_seconds.none
            /\ idle_elapsed = turn_options.idle_timeout_seconds.seconds)
    /\ [](turn_pc = "running" /\ ~turn_options.idle_timeout_seconds.none =>
            idle_elapsed <= turn_options.idle_timeout_seconds.seconds)
    /\ [][ /\ (turn_pc = "running" /\ IdleExpired =>
                  /\ turn_events' = turn_events
                  /\ yielded' = yielded
                  /\ (turn_pc' # "running" => turn_error' = ErrIdle /\ signal'))
           /\ (turn_events' # turn_events => idle_elapsed' = 0)
           /\ (turn_pc = "running" /\ ~IdleExpired => turn_error' # ErrIdle) ]_vars

\* an event was received, and later the turn timed out with the signal set
C15_Witness ==
    /\ turn_error = ErrIdle
    /\ signal
    /\ turn_events # << >>
    /\ idle_elapsed = MaxIdleTicks

\* C16: the temporary output-schema resource is released exactly once when
\* the turn ends, however it ends, and not before; the release never raises
\* and a second release changes nothing, whether the storage still exists,
\* was already removed, cannot be removed, or the schema write failed.
TurnEnded == turn_pc \in {"done", "failed"}

C16_SchemaReleasedOnce ==
    /\ (TurnEnded => schema_file.cleanup_calls = 1)
    /\ (turn_pc \in {"start", "running"} => schema_file.cleanup_calls = 0)
    /\ (TurnEnded /\ ~storage.rmtree_raises => schema_file.dir # "present")
    /\ (turn_pc = "done" => turn_error = NoError)
    /\ turn_error # ErrRmtree
    /\ \A st \in StorageSet :
          LET once == cleanup(schema_file, st)
              twice == cleanup(once.file, st)
          IN  /\ once.err = NoError
              /\ twice.err = NoError
              /\ twice.file.dir = once.file.dir

\* a turn with a staged schema completed although the storage could not be
\* removed: the release ran once and raised nothing
C16_Witness ==
    /\ turn_pc = "done"
    /\ turn_options.output_schema = "object"
    /\ storage.rmtree_raises
    /\ schema_file.cleanup_calls = 1
    /\ schema_file.rmtree_calls = 1
    /\ turn_events # << >>

\* CodexExec.run went through the whole output of the subprocess
ExecCompleted == exec_pc \in {"done", "failed"} /\ exec_error \notin {ErrNoStdin, ErrNoStdout}

\* C17: when the cancellation signal is set while the subprocess runs, the
\* watcher calls terminate on it, once, and never kill - kill is only ever
\* called for a missing stdin or stdout - and it leaves the output alone: a
\* run that completes has yielded every non-empty line the subprocess wrote,
\* in order, terminated or not.
C17_SignalTerminates ==
    /\ [](process.terminated > 0 => signal /\ watch_pc = "done" /\ process.terminated = 1)
    /\ [](process.killed > 0 => exec_error \in {ErrNoStdin, ErrNoStdout})
    /\ [](ExecCompleted => yielded = YieldedOf(written) /\ pipe = << >>)
    /\ [][watch_pc = "waiting" /\ watch_pc' = "done" =>
             /\ signal
             /\ process'.terminated = process.terminated + (IF process.alive THEN 1 ELSE 0)
             /\ process'.killed = process.killed
             /\ process'.alive = process.alive
             /\ UNCHANGED <<pipe, written, yielded, exec_pc, exec_error>>]_vars

\* the subprocess was terminated on the signal, wrote a blank line and two
\* more lines in all, and the run yielded the two and completed
C17_Witness ==
    /\ ExecCompleted
    /\ process.terminated = 1
    /\ process.killed = 0
    /\ Len(written) = 3
    /\ Len(yielded) = 2

\* C18: a subprocess without a writable stdin, or without a readable stdout,
\* is killed and the run raises "no stdin" / "no stdout" without having
\* yielded a line; the run loop reads only from a subprocess that has both.
C18_MissingStdio ==
    /\ (process.spawned /\ ~process.stdin =>
          exec_pc = "failed" /\ exec_error = ErrNoStdin /\ turn_error = ErrNoStdin)
    /\ (process.spawned /\ process.stdin /\ ~process.stdout /\ exec_pc # "stdin_done" =>
          exec_pc = "failed" /\ exec_error = ErrNoStdout /\ turn_error = ErrNoStdout)
    /\ (exec_error \in {ErrNoStdin, ErrNoStdout} =>
          /\ process.killed = 1
          /\ ~process.alive
          /\ yielded = << >>
          /\ turn_events = << >>
          /\ turn_pc = "failed")
    /\ (exec_error = ErrNoStdin => ~process.stdin)
    /\ (exec_error = ErrNoStdout => process.stdin /\ process.stdin_closed /\ ~process.stdout)
    /\ (exec_pc \in {"reading", "done"} \/ yielded # << >> => process.stdin /\ process.stdout)

\* the prompt was written and stdin closed, then the missing stdout was found
C18_Witness ==
    /\ exec_error = ErrNoStdout
    /\ process.stdin_closed
    /\ process.killed = 1
    /\ yielded = << >>
    /\ turn_error = ErrNoStdout

\* Event ev is an item event of the given type for the span-tracked item id
IsItemEvent(ev, type, id) ==
    ev.type = type /\ ev.item.id = id /\ ev.item.type \in SpanKinds

Mentions(ev, id) ==
    \E type \in {"item.started", "item.updated", "item.completed"} : IsItemEvent(ev, type, id)

\* Before event k of evs, an item.started for id was handled and no
\* item.completed for id came after it
OpenBefore(evs, k, id) ==
    \E j \in 1..(k - 1) :
        /\ IsItemEvent(evs[j], "item.started", id)
        /\ \A n \in (j + 1)..(k - 1) : ~IsItemEvent(evs[n], "item.completed", id)

\* The span operations the events of evs call for on item id, in event order
RECURSIVE ItemOps(_, _, _)
ItemOps(evs, k, id) ==
    IF k = 0 THEN << >>
    ELSE ItemOps(evs, k - 1, id) \o
         ( IF IsItemEvent(evs[k], "item.started", id) THEN <<"start">>
           ELSE IF IsItemEvent(evs[k], "item.updated", id) /\ OpenBefore(evs, k, id)
               THEN <<"update">>
           ELSE IF IsItemEvent(evs[k], "item.completed", id) /\ OpenBefore(evs, k, id)
               THEN <<"update", "finish">>
           ELSE << >> )

IsNotErrorOp(op) == op # "error"

\* The operations performed on the spans of item id, span after span
RECURSIVE SpanOps(_, _)
SpanOps(i, id) ==
    IF i = 0 THEN << >>
    ELSE SpanOps(i - 1, id) \o
         (IF spans[i].item_id = id THEN SelectSeq(spans[i].ops, IsNotErrorOp) ELSE << >>)

StreamLoopRunning == pc \in {"loop", "join"}

\* C19 as stated: the span of an item is opened on the first event that
\* mentions the item, whatever its type.
C19_Original ==
    StreamLoopRunning =>
        \A id \in ItemIds :
            (\E k \in 1..Len(processed) : Mentions(processed[k], id)) =>
                \E i \in 1..Len(spans) : spans[i].item_id = id

\* C19 (amended): a span is opened by every item.started event of a command,
\* MCP or reasoning item and by no other event; item.updated and
\* item.completed act on the span opened last for the id, if it is still
\* open, and are ignored otherwise; open, update and close happen in the
\* order of the item's events, and nothing follows the close of a span.
C19_SpanLifecycle ==
    StreamLoopRunning =>
        /\ \A id \in ItemIds : SpanOps(Len(spans), id) = ItemOps(processed, Len(processed), id)
        /\ \A i \in 1..Len(spans) :
              /\ spans[i].ops[1] = "start"
              /\ \A n \in 2..Len(spans[i].ops) :
                    /\ spans[i].ops[n] # "start"
                    /\ spans[i].ops[n] = "finish" => n = Len(spans[i].ops)

\* item i1 was first seen in an item.updated event, which opened nothing;
\* its item.started opened the span and its item.completed closed it
C19_Witness ==
    /\ pc = "loop"
    /\ Len(processed) = 3
    /\ IsItemEvent(processed[1], "item.updated", "i1")
    /\ IsItemEvent(processed[2], "item.started", "i1")
    /\ IsItemEvent(processed[3], "item.completed", "i1")
    /\ Len(spans) = 1
    /\ SelectSeq(spans[1].ops, IsNotErrorOp) = <<"start", "update", "finish">>

\* The error message the completion of an item is to leave on its span
\* ("" = not marked errored)
CompletionError(item) ==
    IF item.type = "command_execution" /\ item.status = "failed"
        THEN "Codex command execution failed."
    ELSE IF item.type = "mcp_tool_call" /\ item.status = "failed" /\ item.error # ""
        THEN item.error
    ELSE ""

\* The error data of a failed command carries its exit code and its output,
\* cut to the span budget when it is longer
CarriesExitCodeAndOutput(data, item, max_chars) ==
    /\ "exit_code" \in data.keys
    /\ data.exit_code = item.exit_code
    /\ item.aggregated_output # EmptyStr =>
          /\ "output" \in data.keys
          /\ IF max_chars.none \/ Len(item.aggregated_output) <= max_chars.chars
                THEN data.output = item.aggregated_output
                ELSE Len(data.output) <= max_chars.chars

StartedCount(id) ==
    Cardinality({ k \in 1..Len(processed) : IsItemEvent(processed[k], "item.started", id) })

SpanCount(id) == Cardinality({ i \in 1..Len(spans) : spans[i].item_id = id })

\* C20: an item that was started once has exactly one span; the
\* item.completed event of an item with an open span marks the span errored
\* exactly when the item is a command with status failed (with the exit code
\* and the output) or an MCP call with status failed and a non-empty error
\* message (with that message), then closes it; a span is marked errored at
\* most once, right before its one close, and never closed twice.
C20_FailedItemSpans ==
    /\ [](\A id \in ItemIds : StartedCount(id) = 1 => SpanCount(id) = 1)
    /\ [](\A i \in 1..Len(spans) :
            LET ops == spans[i].ops
            IN  /\ spans[i].finished <= 1
                /\ Len(SelectSeq(ops, IsNotErrorOp)) >= Len(ops) - 1
                /\ spans[i].error # "" =>
                      /\ spans[i].finished = 1
                      /\ Len(ops) >= 3
                      /\ ops[Len(ops) - 1] = "error"
                      /\ ops[Len(ops)] = "finish"
                /\ spans[i].error = "" => SelectSeq(ops, IsNotErrorOp) = ops)
    /\ [][\A id \in ItemIds :
            (/\ EventHandled
             /\ IsItemEvent(processed'[Len(processed')], "item.completed", id)
             /\ active_spans[id] # 0) =>
                LET i == active_spans[id]
                    item == processed'[Len(processed')].item
                IN  /\ active_spans'[id] = 0
                    /\ Len(spans') = Len(spans)
                    /\ spans[i].finished = 0
                    /\ spans'[i].finished = 1
                    /\ spans'[i].error = CompletionError(item)
                    /\ item.type = "command_execution" /\ item.status = "failed" =>
                          CarriesExitCodeAndOutput(spans'[i].error_data, item,
                                                   options.span_data_max_chars)
                    /\ spans'[i].ops = spans[i].ops \o
                          (IF CompletionError(item) # "" THEN <<"update", "error", "finish">>
                           ELSE <<"update", "finish">>)]_vars

\* item.started, item.updated, item.completed (failed, with output) for the
\* command i1: one span, marked errored with exit code and output, then closed
C20_Witness ==
    /\ Len(processed) = 3
    /\ IsItemEvent(processed[1], "item.started", "i1")
    /\ IsItemEvent(processed[2], "item.updated", "i1")
    /\ processed[3] = ItemEvent("item.completed", CommandOutput("i1", "failed", <<"o", "k">>))
    /\ options.span_data_max_chars = NoBudget
    /\ Len(spans) = 1
    /\ spans[1].error = "Codex command execution failed."
    /\ spans[1].error_data = [keys |-> {"exit_code", "output"}, exit_code |-> 1,
                              output |-> <<"o", "k">>]
    /\ spans[1].ops = <<"start", "update", "update", "error", "finish">>
    /\ spans[1].finished = 1

\* ------------------------------------------------------------------------
\* Span-data budgeting
\* ------------------------------------------------------------------------
\* _truncate_span_value has been applied with a budget of at least one
ValueTruncated == budget_pc = "done" /\ ~budget_limit.none /\ budget_limit.chars >= 1

\* The length of a value as a span field shows it: a string as it is, any
\* other value as compact JSON
SerializedLength(v) == Len(_stringify_span_value(v))

\* C22 as stated: whatever the value, the truncated value's serialized length
\* is at most the budget N, for N >= 1.
C22_Original == ValueTruncated => SerializedLength(value_out) <= budget_limit.chars

\* C22: for N >= 1 a string is cut to at most N characters; a structured value
\* whose JSON is longer than N becomes a preview structure whose preview string
\* has at most N characters and whose original_length is the JSON's length, and
\* is returned unchanged otherwise; None, booleans and numbers are returned
\* unchanged whatever N is.
C22_TruncatedValue ==
    ValueTruncated =>
        CASE value_in.t = "str" ->
                /\ value_out.t = "str"
                /\ Len(value_out.s) <= budget_limit.chars
                /\ Len(value_in.s) <= budget_limit.chars => value_out = value_in
          [] value_in.t = "obj" ->
                IF Len(JsonText(value_in)) <= budget_limit.chars
                    THEN value_out = value_in
                    ELSE /\ value_out.t = "preview"
                         /\ Len(value_out.s) <= budget_limit.chars
                         /\ value_out.n = Len(JsonText(value_in))
          [] OTHER -> value_out = value_in

\* A structured value of 37 characters cut to a preview of 30 characters that
\* ends in the truncation marker
C22_Witness ==
    /\ ValueTruncated
    /\ budget_limit.chars = 30
    /\ value_in.t = "obj"
    /\ value_out.t = "preview"
    /\ Len(value_out.s) = 30
    /\ value_out.n = LongLen + 8
    /\ SubSeq(value_out.s, 6, 30) = TruncatedSuffix(LongLen + 8)

\* _enforce_span_data_budget has just been applied with a budget of at least one
BudgetEnforced ==
    budget_pc = "enforced" /\ ~budget_limit.none /\ budget_limit.chars >= 1

\* The fields of a mapping that are never trimmed: the mapping without its
\* trimmable fields and without its empty-string fields
NonTrimmable(d) ==
    Restrict(d, { k \in DOMAIN d : k \notin TrimKeySet /\ d[k] # StrV(EmptyStr) })

\* C21 as stated: for every mapping and every budget N >= 1 the returned
\* mapping serializes to at most N characters.
C21_Original == BudgetEnforced => Len(JsonDumps(budget_result)) <= budget_limit.chars

\* C21: for every mapping and every budget N >= 1, the returned mapping
\* serializes to at most N characters whenever the non-trimmable fields alone
\* do; when they do not, the returned mapping is exactly those fields.
C21_BudgetCompliance ==
    BudgetEnforced =>
        IF Len(JsonDumps(NonTrimmable(budget_data))) <= budget_limit.chars
            THEN Len(JsonDumps(budget_result)) <= budget_limit.chars
            ELSE budget_result = NonTrimmable(budget_data)

\* A mapping with trimmable and non-trimmable fields, over the budget, comes
\* back with its fields cut to fill the budget exactly
C21_Witness ==
    /\ BudgetEnforced
    /\ DOMAIN budget_data = {"arguments", "output", "exit_code"}
    /\ Len(JsonDumps(budget_data)) > budget_limit.chars
    /\ DOMAIN budget_result = DOMAIN budget_data
    /\ budget_result # budget_data
    /\ Len(JsonDumps(budget_result)) = budget_limit.chars

\* The base skeleton of a mapping: empty-string fields dropped, every
\* trimmable field blanked
BaseSkeleton(d) ==
    [k \in DOMAIN _drop_empty_string_fields(d) |->
        IF k \in TrimKeySet THEN StrV(EmptyStr) ELSE d[k]]

\* The trimmable fields of a mapping that have content
ContentKeys(d) ==
    { k \in DOMAIN d \cap TrimKeySet : d[k].t # "none" /\ d[k] # StrV(EmptyStr) }

\* The mapping is over the budget and its arguments, stringified, fit what is
\* left of the budget after the base skeleton and one character for each
\* other trimmable field with content
ArgumentsFit ==
    /\ BudgetEnforced
    /\ Len(JsonDumps(_drop_empty_string_fields(budget_data))) > budget_limit.chars
    /\ "arguments" \in ContentKeys(budget_data)
    /\ Len(_stringify_span_value(budget_data["arguments"])) <=
          budget_limit.chars - Len(JsonDumps(BaseSkeleton(budget_data)))
              - (Cardinality(ContentKeys(budget_data)) - 1)

\* C23: when an over-budget mapping contains arguments that fit the budget
\* left after the base skeleton and the one-character reservation of the
\* other trimmable fields, the arguments field comes back untruncated.
C23_ArgumentsIntact ==
    ArgumentsFit =>
        /\ "arguments" \in DOMAIN budget_result
        /\ budget_result["arguments"] =
              StrV(_stringify_span_value(budget_data["arguments"]))

\* The trimmable fields present in a mapping, in priority order
PresentTrimKeys(d) == KeysIn(SPAN_TRIM_KEYS, DOMAIN _drop_empty_string_fields(d))

\* The base skeleton once the fields of a sequence of keys are removed
SkeletonWithout(d, keys) ==
    Restrict(BaseSkeleton(d),
             DOMAIN BaseSkeleton(d) \ { keys[i] : i \in 1..Len(keys) })

\* The mapping is over the budget and its base skeleton does not fit either
SkeletonOverBudget ==
    /\ BudgetEnforced
    /\ PresentTrimKeys(budget_data) # << >>
    /\ Len(JsonDumps(BaseSkeleton(budget_data))) > budget_limit.chars

\* C24: when the base skeleton does not fit the budget, trimmable fields are
\* removed in reverse priority order: the i-th field removed is the i-th
\* lowest-priority trimmable field present, a field is removed only while the
\* skeleton still does not fit, removal stops as soon as the skeleton fits (or
\* no trimmable field is left), and the removed fields are not in the result.
C24_RemovedInReversePriority ==
    SkeletonOverBudget =>
        LET present == PresentTrimKeys(budget_data)
            count == Len(budget_dropped)
        IN  /\ count >= 1
            /\ count <= Len(present)
            /\ \A i \in 1..count : budget_dropped[i] = present[Len(present) - i + 1]
            /\ \A i \in 1..count :
                  Len(JsonDumps(SkeletonWithout(budget_data, SubSeq(budget_dropped, 1, i - 1))))
                      > budget_limit.chars
            /\ \/ count = Len(present)
               \/ Len(JsonDumps(SkeletonWithout(budget_data, budget_dropped)))
                      <= budget_limit.chars
            /\ \A i \in 1..count : budget_dropped[i] \notin DOMAIN budget_result

\* command, output and items are present, the skeleton is over the budget:
\* items, then output are removed and the skeleton with command alone fits
C24_Witness ==
    /\ SkeletonOverBudget
    /\ PresentTrimKeys(budget_data) = <<"command", "output", "items">>
    /\ budget_dropped = <<"items", "output">>
    /\ "command" \in DOMAIN budget_result

\* C25: with budget None the mapping comes back with exactly its fields whose
\* value is not the empty string, each with its value; with a budget of zero or
\* less the empty mapping comes back.
C25_NoneAndZeroBudget ==
    budget_pc = "enforced" =>
        /\ budget_limit.none =>
              /\ DOMAIN budget_result =
                    { k \in DOMAIN budget_data : budget_data[k] # StrV(EmptyStr) }
              /\ \A k \in DOMAIN budget_result : budget_result[k] = budget_data[k]
        /\ ~budget_limit.none /\ budget_limit.chars <= 0 => DOMAIN budget_result = {}

\* Budget None: a mapping of 60 characters and more, with an empty result and
\* a None-valued one apart, loses the empty-string field only
C25_Witness ==
    /\ budget_pc = "enforced"
    /\ budget_limit.none
    /\ DOMAIN budget_data = {"arguments", "output", "result", "status"}
    /\ budget_data["result"] = StrV(EmptyStr)
    /\ Len(budget_data["output"].s) = LongLen
    /\ budget_result = Without(budget_data, "result")

\* ------------------------------------------------------------------------
\* Input validation
\* ------------------------------------------------------------------------
\* A field is absent or empty once trimmed
BlankField(value) == value = None \/ Strip(value) = EmptyStr

\* The item supplies exactly the field of its type
ItemWellFormed(item) ==
    \/ item.type = "text" /\ ~BlankField(item.text) /\ BlankField(item.path)
    \/ item.type = "local_image" /\ ~BlankField(item.path) /\ BlankField(item.text)

InputWellFormed(input) ==
    /\ \A i \in 1..Len(input.inputs.items) : ItemWellFormed(input.inputs.items[i])
    /\ input.thread_id = None \/ ~BlankField(input.thread_id)

\* C26: with the tool's own parameter models, a call whose input has an item
\* that does not supply exactly the field of its type, or a thread_id that is
\* blank, is rejected as invalid input (ModelBehaviorError) without a Thread
\* being started or resumed, then or later in the call; a call that is accepted
\* has a well-formed input.
C26_InputValidated ==
    [][/\ \A input \in CallInputs :
            BeginCall(input) /\ options.parameters = "default" =>
                /\ ~InputWellFormed(input) =>
                      /\ pc' = "failed"
                      /\ exc' = ModelBehaviorError
                      /\ UNCHANGED <<threads, start_calls, resume_calls>>
                /\ pc' = "resolve_codex" => InputWellFormed(input)
       /\ pc = "failed" =>
            /\ pc' = "done"
            /\ outcome'.kind \in {"raised", "handled"}
            /\ UNCHANGED <<threads, start_calls, resume_calls>>]_vars

\* A call whose only item is a text item that also names a path has been
\* rejected, and no Thread was started or resumed
C26_Witness ==
    /\ calls = 1
    /\ pc = "done"
    /\ options.parameters = "default"
    /\ exc = ModelBehaviorError
    /\ args = NoArgs
    /\ outcome.kind = "raised"
    /\ start_calls = 0
    /\ resume_calls = 0
    /\ threads = << >>
    /\ _parse_tool_input(ParametersModel(options),
                         [json_ok |-> TRUE, inputs |-> Inputs(<<TextWithPathItem>>),
                          thread_id |-> None]).err = ModelBehaviorError

\* ------------------------------------------------------------------------
\* Output schema resolution
\* ------------------------------------------------------------------------
\* A descriptor has been resolved
DescriptorResolved == schema_pc = "done" /\ schema_option.kind = "descriptor"

\* The declared type is a primitive type or an array of a primitive type
DeclaredTypeAllowed(field) ==
    \/ Len(field.types) = 1 /\ field.types[1] \in JSON_PRIMITIVE_TYPES
    \/ Len(field.types) = 2 /\ field.types[1] = "array" /\ field.types[2] \in JSON_PRIMITIVE_TYPES

DeclaredNames(descriptor) ==
    { descriptor.properties[i].name : i \in 1..Len(descriptor.properties) }

\* One of the four faults of a descriptor
DescriptorFaulty(descriptor) ==
    \/ descriptor.properties = << >>
    \/ \E i, j \in 1..Len(descriptor.properties) :
          i < j /\ descriptor.properties[i].name = descriptor.properties[j].name
    \/ \E i \in 1..Len(descriptor.properties) :
          ~DeclaredTypeAllowed(descriptor.properties[i].schema)
    \/ \E i \in 1..Len(descriptor.required.names) :
          descriptor.required.names[i] \notin DeclaredNames(descriptor)

ValidationErrors ==
    { ErrDescriptorProperties, ErrPropertyName, ErrDuplicateProperty, ErrInvalidField,
      ErrRequiredNotStrings, ErrRequiredUndefined }

\* C27: resolving a descriptor fails with a validation error whenever it has
\* no properties, a duplicated property name, a property whose declared type is
\* not a primitive type or an array of a primitive type, or a required entry
\* that is not a declared property name.
C27_FaultyDescriptorRejected ==
    DescriptorResolved /\ DescriptorFaulty(schema_option) =>
        schema_resolved.err \in ValidationErrors

\* A descriptor of the declared shape: at least one property, each with a
\* non-blank name of its own and a primitive or array-of-primitive schema whose
\* enum, if any, is a list of strings; required, if given, a list of declared
\* property names
DescriptorValid(descriptor) ==
    /\ ~DescriptorFaulty(descriptor)
    /\ \A i \in 1..Len(descriptor.properties) :
          /\ IsStr(descriptor.properties[i].name)
          /\ Strip(descriptor.properties[i].name) # EmptyStr
          /\ descriptor.properties[i].schema.enum # "invalid"
    /\ descriptor.required.kind # "null"

\* C28: for a valid descriptor the schema produced has type object and
\* additionalProperties false, exactly one property for each declared property
\* (under its name, with its declared type), and a required list that holds
\* declared property names only.
C28_SchemaOfDescriptor ==
    DescriptorResolved /\ DescriptorValid(schema_option) =>
        /\ schema_resolved.err = NoError
        /\ schema_resolved.val.type = "object"
        /\ schema_resolved.val.additionalProperties = FALSE
        /\ DOMAIN schema_resolved.val.properties = DeclaredNames(schema_option)
        /\ Cardinality(DOMAIN schema_resolved.val.properties) = Len(schema_option.properties)
        /\ \A i \in 1..Len(schema_option.properties) :
              schema_resolved.val.properties[schema_option.properties[i].name].types =
                  schema_option.properties[i].schema.types
        /\ \A i \in 1..Len(schema_resolved.val.required) :
              schema_resolved.val.required[i] \in DeclaredNames(schema_option)

\* A descriptor with a title, an array property a and a primitive property b,
\* a required: the schema has both properties and requires a
C28_Witness ==
    /\ DescriptorResolved
    /\ DescriptorValid(schema_option)
    /\ schema_option.title = <<"T">>
    /\ Len(schema_option.properties) = 2
    /\ schema_option.required = Required(<<<<"a">>>>)
    /\ schema_resolved.err = NoError
    /\ schema_resolved.val.properties[<<"a">>].types = <<"array", "integer">>
    /\ schema_resolved.val.properties[<<"b">>].types = <<"boolean">>
    /\ schema_resolved.val.required = <<<<"a">>>>
    /\ schema_resolved.val.title = <<"T">>

\* The call ended in its exception handler
CallFailed == pc = "done" /\ outcome.kind \in {"raised", "handled"}

\* The trace entries of the call to date report the error of its outcome
ErrorTraced ==
    tool_span_errors = <<[message |-> ErrNonFatal, error |-> outcome.error]>>

\* The statement as worded: a failed call has recorded a trace entry whether a
\* failure handler replaced the result or the exception propagated
C29_Original == CallFailed => ErrorTraced

\* C29: a trace entry (a SpanError on the current span, carrying the error) is
\* recorded exactly when a failure handler is configured and has returned its
\* replacement value; when the exception propagates, and while or after a call
\* that did not fail, the tool has attached no error to the span.
C29_TraceEntryWhenHandled ==
    /\ pc = "done" /\ outcome.kind = "handled" =>
          /\ options.failure_error_function # "none"
          /\ outcome.response = HandlerResult(options.failure_error_function)
          /\ ErrorTraced
    /\ ~(pc = "done" /\ outcome.kind = "handled") => tool_span_errors = << >>

\* A call has failed, the configured handler has replaced its result, and the
\* error is on the span
C29_Witness ==
    /\ CallFailed
    /\ outcome.kind = "handled"
    /\ outcome.response = <<"handled">>
    /\ ErrorTraced

\* The event has none of the discriminators that select a variant
IsUnknownEvent(ev) == ev.type \notin KnownEventTypes

\* C30: an event with an unrecognized discriminator is taken as an unknown
\* event: the loop goes on to the next event (the turn neither ends nor fails)
\* with the final response, the usage, the resolved thread id, the Thread and
\* the open spans as they were, and the event, unchanged, is put on the queue
\* of the on_stream callback when there is one, which has received it in its
\* place among the events once the consumer is left.
C30_UnknownEventPreserved ==
    /\ [][\A raw \in ConsumeAlphabet :
            ConsumeEvent(raw) /\ IsUnknownEvent(raw) =>
                /\ pc' = "loop"
                /\ processed' = Append(processed, raw)
                /\ UNCHANGED <<exc, outcome, final_response, usage, consume_thread_id,
                               resolved_thread_id_holder, threads, spans, active_spans>>
                /\ IF options.on_stream = "none"
                    THEN UNCHANGED <<event_queue, unfinished_tasks>>
                    ELSE event_queue' = Append(event_queue, raw)]_vars
    /\ [](pc \in {"returned", "raised"} /\ options.on_stream # "none" =>
            \A i \in 1..Len(processed) :
                IsUnknownEvent(processed[i]) =>
                    i <= Len(delivered) /\ delivered[i] = processed[i])

\* An unknown event came while the span of a command was open and after the
\* thread id was resolved: the span is still open, the id is kept, and the
\* callback has received both events and the unknown one
C30_Witness ==
    /\ options.on_stream # "none"
    /\ pc = "loop"
    /\ Len(processed) = 3
    /\ processed[1].type = "thread.started"
    /\ processed[2].type = "item.started"
    /\ IsUnknownEvent(processed[3])
    /\ consume_thread_id = processed[1].thread_id
    /\ active_spans["i1"] # 0
    /\ delivered = processed

\* The keys the budget may cut or remove, as the statement names them
TrimmableKeys ==
    {"arguments", "command", "output", "result", "error", "text", "changes", "items"}

\* C39: for every mapping and every budget (none, zero, negative or positive),
\* the keys of the returned mapping are keys of the input, and every returned
\* field that is not a trimmable key has exactly the value it had in the input.
C39_NothingAddedOrAltered ==
    budget_pc = "enforced" =>
        /\ DOMAIN budget_result \subseteq DOMAIN budget_data
        /\ \A k \in DOMAIN budget_result :
              k \notin TrimmableKeys => budget_result[k] = budget_data[k]

\* A mapping over the budget lost a trimmable field and had another one cut,
\* while its status and exit code came back as they were
C39_Witness ==
    /\ BudgetEnforced
    /\ {"status", "exit_code", "output"} \subseteq DOMAIN budget_result
    /\ DOMAIN budget_result # DOMAIN budget_data
    /\ budget_result["output"] # budget_data["output"]
    /\ budget_result["status"] = budget_data["status"]
    /\ budget_result["exit_code"] = budget_data["exit_code"]

UsageRecorded == \E i \in 1..Len(processed) : processed[i].type = "turn.completed"

\* C37: a turn.completed event records its usage and the loop goes on; the
\* consumer is left without an error only when the stream is exhausted; and an
\* event that comes after a turn.completed event is applied like any other: a
\* completed agent message replaces the final response, a turn.completed event
\* replaces the usage, a turn.failed or error event fails the turn with its
\* message, and any other event leaves the loop running.
C37_TurnCompletedDoesNotEnd ==
    [][/\ \A raw \in ConsumeAlphabet :
            ConsumeEvent(raw) =>
                /\ raw.type = "turn.completed" =>
                      /\ usage' = raw.usage
                      /\ pc' = "loop"
                      /\ UNCHANGED <<exc, outcome, final_response>>
                /\ UsageRecorded =>
                      /\ processed' = Append(processed, raw)
                      /\ IF raw.type = "item.completed" /\ raw.item.type = "agent_message"
                            THEN final_response' = raw.item.text
                            ELSE final_response' = final_response
                      /\ raw.type # "turn.completed" => usage' = usage
                      /\ IF IsFailureEvent(raw)
                            THEN /\ pc' \in {"join", "raised"}
                                 /\ exc' = FailureText(raw)
                            ELSE /\ pc' = "loop"
                                 /\ exc' = exc
       /\ (pc = "loop" /\ pc' # "loop" /\ exc' = NoError) => StreamEnd]_vars

\* After a first turn.completed event the stream delivered an agent message
\* and a second turn.completed event, and the turn returned both
C37_Witness ==
    /\ pc = "returned"
    /\ processed = << TurnCompleted(Usage1),
                      ItemEvent("item.completed", AgentMessage(<<"x">>)),
                      TurnCompleted(Usage2) >>
    /\ outcome.usage = Usage2
    /\ outcome.response = <<"x">>

\* The call has ended after its stream was exhausted (_consume_events returned)
\* without a turn.completed, turn.failed or error event
StreamEndedQuietly ==
    /\ pc = "done"
    /\ exc \in {NoError, ErrCtxStore}
    /\ \A i \in 1..Len(processed) :
          processed[i].type \notin {"turn.completed", "turn.failed", "error"}

\* The response of a turn without failure: the last agent message, or the default
QuietResponse ==
    IF AgentMessageSeen(processed)
            /\ processed[LastAgentIndex(processed)].item.text # EmptyStr
        THEN processed[LastAgentIndex(processed)].item.text
        ELSE _build_default_response(args)

\* The statement as worded: such a call always succeeds, with a result whose
\* usage is None, and adds nothing to the caller's usage counter
C38_Original ==
    StreamEndedQuietly =>
        /\ outcome.kind = "result"
        /\ outcome.usage = NoUsage
        /\ outcome.response = QuietResponse
        /\ ctx_usage = usage_before

\* C38: a call whose stream ends without a turn.completed, turn.failed or
\* error event adds nothing to the caller's usage counter and succeeds with a
\* result whose usage is None and whose response is the last agent message or
\* the default - unless the run context, in run-context mode, refuses the
\* assignment of the resolved thread id, which fails the call after its turn.
C38_NoUsageWithoutTurnCompleted ==
    /\ StreamEndedQuietly =>
          /\ ctx_usage = usage_before
          /\ IF exc = NoError
                THEN /\ outcome.kind = "result"
                     /\ outcome.usage = NoUsage
                     /\ outcome.response = QuietResponse
                ELSE /\ options.use_run_context_thread_id
                     /\ ~CtxAcceptsWrite
                     /\ resolved_thread_id # None
                     /\ outcome.kind \in {"raised", "handled"}
    /\ ( /\ pc = "done"
         /\ exc = NoError
         /\ \A i \in 1..Len(processed) : processed[i].type # "turn.completed" ) =>
            outcome.usage = NoUsage

\* A call whose stream held an agent message and nothing else has returned
\* that message with no usage, after an earlier call had added its usage
C38_Witness ==
    /\ StreamEndedQuietly
    /\ calls = 2
    /\ processed = << ItemEvent("item.completed", AgentMessage(<<"x">>)) >>
    /\ outcome.kind = "result"
    /\ outcome.response = <<"x">>
    /\ outcome.usage = NoUsage
    /\ usage_before.requests = 1
    /\ ctx_usage = usage_before

\* Nothing is left for the dispatcher to do: the queue is empty, every item put
\* on it was marked done, and the dispatcher task has ended
Drained == event_queue = << >> /\ unfinished_tasks = 0 /\ dispatch = "done"

\* C36: with an on_stream callback, when _consume_events has returned or
\* raised, every processed event was handed to the callback, no callback is
\* running and the dispatcher has ended; a callback is started only while no
\* other one runs; and the spans still open are closed, and the consumer left,
\* only once the queue is drained.
C36_DrainedBeforeLeaving ==
    /\ [](options.on_stream # "none" /\ pc \in {"returned", "raised"} =>
            /\ delivered = processed
            /\ Drained)
    /\ [][delivered' # delivered =>
            /\ dispatch = "waiting"
            /\ dispatch' \in {"running", "running_sync"}
            /\ Len(delivered') = Len(delivered) + 1]_vars
    /\ [][options.on_stream # "none" =>
            /\ (pc' \in {"returned", "raised"} /\ pc' # pc) => (pc = "join" /\ Drained)
            /\ (processed' = processed /\ <<spans, active_spans>>' # <<spans, active_spans>>)
                  => (pc = "join" /\ Drained /\ pc' \in {"returned", "raised"})]_vars

\* The span of a command was still open when the stream ended: the callback
\* had received both events, raising on one of them, before the span was closed
C36_Witness ==
    /\ options.on_stream = "async"
    /\ pc = "returned"
    /\ Len(processed) = 2
    /\ processed[1].type = "item.started"
    /\ IsUnknownEvent(processed[2])
    /\ delivered = processed
    /\ callback_errors = 1
    /\ Drained
    /\ Len(spans) = 1
    /\ spans[1].finished = 1
    /\ active_spans["i1"] = 0

ThreadStartedSeen(evs) == \E i \in 1..Len(evs) : evs[i].type = "thread.started"

LastThreadStartedId(evs) ==
    evs[CHOOSE i \in 1..Len(evs) :
            /\ evs[i].type = "thread.started"
            /\ \A j \in (i + 1)..Len(evs) : evs[j].type # "thread.started"].thread_id

\* The thread id of the turn of the current call, stated from the rule: the
\* most recent thread.started event, then the id the Thread had when the
\* consumption of its events started, then the id the call resolved
ReportedThreadId ==
    IF ThreadStartedSeen(processed) THEN LastThreadStartedId(processed)
    ELSE IF turns[Len(turns)].resume # None THEN turns[Len(turns)].resume
    ELSE call_thread_id

\* C32: while the events of a turn are consumed and when the consumer is left,
\* the resolved thread id is the id of the most recent thread.started event,
\* else the Thread's own id as it was when the consumption started, else the
\* id the call resolved (by the precedence of the explicit argument, the run
\* context and the configured default); a call that returns its result reports
\* that id and, in run-context mode, has written it to the run context.
C32_ReportedThreadId ==
    /\ [](pc \in {"loop", "join", "returned", "raised"} =>
            /\ consume_thread_id = ReportedThreadId
            /\ resolved_thread_id_holder = ReportedThreadId)
    /\ [](pc = "returned" => outcome.thread_id = ReportedThreadId)
    /\ []((pc = "done" /\ outcome.kind = "result") =>
            /\ outcome.thread_id = ReportedThreadId
            /\ (options.use_run_context_thread_id /\ ReportedThreadId # None)
                  => context.value = ReportedThreadId)
    /\ [][(pc = "resolve_codex" /\ pc' = "run_streamed") =>
            call_thread_id' = ExpectedThreadId]_vars

\* The cached Thread has no id (the first call failed before thread.started):
\* the second call supplied "a", saw no thread.started event and reports "a"
C32_Witness ==
    /\ pc = "done"
    /\ options.persist_session
    /\ calls = 2
    /\ Len(turns) = 2
    /\ turns[2].thread = turns[1].thread
    /\ turns[2].resume = None
    /\ ~ThreadStartedSeen(processed)
    /\ call_thread_id = <<"a">>
    /\ outcome.kind = "result"
    /\ outcome.thread_id = <<"a">>

\* C34: with persist_session, the turn of a call that supplied a thread id
\* runs on a Thread whose id, when the turn starts, is the id supplied: the
\* Thread resumes that id.
C34_SuppliedIdResumed ==
    ( /\ options.persist_session
      /\ pc \in {"loop", "join", "returned", "raised"}
      /\ Truthy(args.thread_id) ) =>
        /\ call_thread_id = args.thread_id
        /\ turns[Len(turns)].thread = thread
        /\ turns[Len(turns)].resume = args.thread_id

\* ------------------------------------------------------------------------
\* Command execution spans: the span data through item.started and the later
\* item.updated / item.completed events of one command execution item
\* ------------------------------------------------------------------------
\* The span-data budgets a command span is kept under, besides none
TightBudget == 70
DefaultBudget == 8192

IsEmptyOutput(output) == output \in {NoneV, StrV(EmptyStr)}

\* updates = {command, status, exit_code}, and output only when the item
\* carries a non-empty aggregated_output
CommandSpanUpdates(item, max_chars) ==
    IF IsEmptyOutput(item.aggregated_output)
        THEN [command |-> item.command, status |-> item.status, exit_code |-> item.exit_code]
        ELSE [command |-> item.command, status |-> item.status, exit_code |-> item.exit_code,
              output |-> _truncate_span_value(item.aggregated_output, max_chars)]

\* {**current, **updates}, the mapping _merge_span_data hands to the budget
MergedData(current, updates) ==
    [k \in DOMAIN current \cup DOMAIN updates |->
        IF k \in DOMAIN updates THEN updates[k] ELSE current[k]]

\* _update_command_span, on the span's data
_update_command_span(data, item, max_chars) ==
    _merge_span_data(data, CommandSpanUpdates(item, max_chars), max_chars)

CommandItems ==
    [command : {StrV(Chars("ls")), StrV(Fill("c", 12))},
     status : {StrV(Chars("in_progress")), StrV(Chars("completed")), StrV(Chars("failed"))},
     exit_code : {NoneV, IntV(0), IntV(127)},
     aggregated_output : {NoneV, StrV(EmptyStr), StrV(Chars("first output")),
                          StrV(Fill("o", LongLen))}]

CommandSpanLimits ==
    {NoBudget, Budget(0), Budget(TightBudget), Budget(DefaultBudget)}

InitCommandSpan ==
    /\ AdapterIdle
    /\ MilestoneIdle
    /\ SchemaIdle
    /\ budget_pc = "span_none"
    /\ budget_data = EmptyData
    /\ budget_limit \in CommandSpanLimits
    /\ budget_result = EmptyData
    /\ value_in = NoneV
    /\ value_out = NoneV
    /\ budget_dropped = << >>
    /\ command_item = NoCommandItem

\* _handle_item_started on a command execution item: the data the span is
\* created with
StartCommandSpan(item) ==
    /\ budget_pc = "span_none"
    /\ command_item' = item
    /\ budget_data' = MergedData(EmptyData, CommandSpanUpdates(item, budget_limit))
    /\ budget_result' = _merge_span_data(EmptyData, CommandSpanUpdates(item, budget_limit),
                                         budget_limit)
    /\ budget_dropped' = DroppedKeys(budget_data', budget_limit)
    /\ budget_pc' = "span_open"
    /\ UNCHANGED <<cfgVars, taskVars, milestoneVars, sessVars, callVars, consumeVars, dispVars, turnVars, execVars, traceVars,
                   schemaVars, budget_limit, value_in, value_out>>

\* _update_command_span(span, item, span_data_max_chars), as item.updated
\* and item.completed call it on the open span
UpdateCommandSpan(item) ==
    /\ budget_pc = "span_open"
    /\ command_item' = item
    /\ budget_data' = MergedData(budget_result, CommandSpanUpdates(item, budget_limit))
    /\ budget_result' = _update_command_span(budget_result, item, budget_limit)
    /\ budget_dropped' = DroppedKeys(budget_data', budget_limit)
    /\ UNCHANGED <<cfgVars, taskVars, milestoneVars, sessVars, callVars, consumeVars, dispVars, turnVars, execVars, traceVars,
                   schemaVars, budget_pc, budget_limit, value_in, value_out>>

NextCommandSpan ==
    \/ \E item \in CommandItems : StartCommandSpan(item)
    \/ \E item \in CommandItems : UpdateCommandSpan(item)

SpecCommandSpan == InitCommandSpan /\ [][NextCommandSpan]_vars

\* The output field of span data (Absent when the data has none)
OutputOf(data) == IF "output" \in DOMAIN data THEN data["output"] ELSE Absent

\* A step that applies an item without output to the open span
EmptyOutputUpdate ==
    /\ budget_pc = "span_open"
    /\ budget_pc' = "span_open"
    /\ IsEmptyOutput(command_item'.aggregated_output)

\* The merged data of the step fits the budget, or there is no budget
MergedFits ==
    budget_limit.none \/ _json_char_size(budget_data') <= budget_limit.chars

\* C33: an item.updated or item.completed event whose
\* aggregated_output is missing or empty leaves the output recorded on the
\* span as it was, while status and exit_code are taken from the event (and
\* command, as far as the budget lets it)
C33_OutputKept ==
    [][(EmptyOutputUpdate /\ OutputOf(budget_result) # Absent) =>
          /\ OutputOf(budget_result') = OutputOf(budget_result)
          /\ budget_result'["status"] = command_item'.status
          /\ budget_result'["exit_code"] = command_item'.exit_code]_vars

\* What does hold of an event without output: the recorded output stays
\* and command, status and exit_code are the event's when there is no
\* span-data budget or the span data with the event's fields fits it
OutputKeptWithinBudget ==
    [][(EmptyOutputUpdate /\ MergedFits) =>
          /\ OutputOf(budget_result') = OutputOf(budget_result)
          /\ budget_result'["command"] = command_item'.command
          /\ budget_result'["status"] = command_item'.status
          /\ budget_result'["exit_code"] = command_item'.exit_code]_vars

\* A span under the default budget that recorded "first output", after a
\* completion without output: exit code 0, the output still there
C33_Witness ==
    /\ budget_pc = "span_open"
    /\ budget_limit = Budget(DefaultBudget)
    /\ command_item.status = StrV(Chars("completed"))
    /\ command_item.exit_code = IntV(0)
    /\ command_item.aggregated_output = NoneV
    /\ budget_data = MergedData(budget_result, CommandSpanUpdates(command_item, budget_limit))
    /\ OutputOf(budget_result) = StrV(Chars("first output"))
    /\ budget_result["exit_code"] = IntV(0)

\* ------------------------------------------------------------------------
\* Concurrent calls of one tool on one event loop. A call runs from one
\* await to the next without giving up the loop: "await resolve_codex()"
\* (line 342) and the awaits of the turn (lines 370-381) are the places
\* where another call may run.
\* ------------------------------------------------------------------------
ConcurrentOptions ==
    { o \in CallOptions : /\ ~o.use_run_context_thread_id
                          /\ o.failure_error_function = "none"
                          /\ o.parameters = "default" }

ConcurrentInputs ==
    { [json_ok |-> TRUE, inputs |-> Inputs(<<TextItem>>), thread_id |-> t] :
        t \in {None, <<"a">>} }

InitConcurrent ==
    /\ options \in ConcurrentOptions
    /\ context = [kind |-> "none", value |-> None]
    /\ threads = << >>
    /\ persisted_thread = 0
    /\ start_calls = 0
    /\ resume_calls = 0
    /\ last_resumed_thread_id = None
    /\ ctx_usage = ZeroUsage
    /\ turns = << >>
    /\ pc = "idle"
    /\ calls = 0
    /\ usage_before = ZeroUsage
    /\ args = NoArgs
    /\ thread = 0
    /\ call_thread_id = None
    /\ resolved_thread_id = None
    /\ resolved_thread_id_holder = NoHolder
    /\ exc = NoError
    /\ outcome = NoOutcome
    /\ final_response = EmptyStr
    /\ usage = NoUsage
    /\ consume_thread_id = None
    /\ active_spans = NoSpans
    /\ spans = << >>
    /\ processed = << >>
    /\ event_queue = << >>
    /\ unfinished_tasks = 0
    /\ dispatch = "none"
    /\ delivered = << >>
    /\ callback_errors = 0
    /\ tool_span_errors = << >>
    /\ tasks = NoTasks
    /\ MilestoneIdle
    /\ TurnIdle
    /\ PureIdle

\* lines 334-342 of one call: parse and normalize the input, up to
\* "await resolve_codex()"
TaskBegin(t, input) ==
    LET parsed == _parse_tool_input(ParametersModel(options), input)
        norm   == IF parsed.err # NoError THEN parsed ELSE _normalize_parameters(parsed.val)
    IN  /\ tasks[t].pc = "idle"
        /\ tasks' = [tasks EXCEPT ![t] =
                        IF norm.err = NoError
                            THEN [@ EXCEPT !.pc = "resolve_codex", !.args = norm.val]
                            ELSE [@ EXCEPT !.pc = "failed", !.exc = norm.err]]
        /\ UNCHANGED <<cfgVars, milestoneVars, sessVars, callVars, consumeVars, dispVars, turnVars, execVars,
                       pureVars, traceVars>>

\* lines 343-367 of one call, from the return of resolve_codex() to
\* "await thread.run_streamed(...)": the thread id is resolved, the cached
\* Thread is looked up or a Thread is created, and the cache is filled
TaskResolveThread(t) ==
    LET r == _resolve_call_thread_id(tasks[t].args, context, options.thread_id,
                                     options.use_run_context_thread_id)
        g == IF options.persist_session
                 THEN _get_or_create_persisted_thread(r.val, persisted_thread, threads)
                 ELSE [err |-> NoError, reuse |-> 0]
        created == g.reuse = 0
        th == IF created THEN Len(threads) + 1 ELSE g.reuse
    IN  /\ tasks[t].pc = "resolve_codex"
        /\ IF r.err # NoError \/ g.err # NoError
            THEN /\ tasks' = [tasks EXCEPT ![t].pc = "failed",
                                           ![t].exc = IF r.err # NoError THEN r.err ELSE g.err]
                 /\ UNCHANGED <<threads, persisted_thread, start_calls, resume_calls,
                                last_resumed_thread_id>>
            ELSE /\ tasks' = [tasks EXCEPT ![t].pc = "streaming", ![t].thread = th]
                 /\ threads' = IF created THEN Append(threads, _get_thread(r.val)) ELSE threads
                 /\ start_calls' = IF created /\ ~Truthy(r.val)
                                       THEN start_calls + 1 ELSE start_calls
                 /\ resume_calls' = IF created /\ Truthy(r.val)
                                        THEN resume_calls + 1 ELSE resume_calls
                 /\ last_resumed_thread_id' = IF created /\ Truthy(r.val)
                                                  THEN r.val ELSE last_resumed_thread_id
                 /\ persisted_thread' = IF options.persist_session
                                            THEN persisted_thread_cached(persisted_thread, th)
                                            ELSE persisted_thread
        /\ UNCHANGED <<cfgVars, milestoneVars, context, ctx_usage, turns, callVars, consumeVars, dispVars,
                       turnVars, execVars, pureVars, traceVars>>

\* The turn of one call receives thread.started: a started Thread learns its
\* identifier, a resumed one is told the identifier it has
TaskThreadStarted(t) ==
    LET th == tasks[t].thread
        ev == ThreadStarted(IF threads[th].id = None THEN <<"s">> ELSE threads[th].id)
    IN  /\ tasks[t].pc = "streaming"
        /\ threads' = [threads EXCEPT ![th] = ThreadObserve(@, ev)]
        /\ UNCHANGED <<cfgVars, taskVars, milestoneVars, context, persisted_thread, start_calls, resume_calls,
                       last_resumed_thread_id, ctx_usage, turns, callVars, consumeVars,
                       dispVars, turnVars, execVars, pureVars, traceVars>>

\* The turn of one call ends: with the stream exhausted (lines 386-396, the
\* usage of the turn is added) or with a failure (lines 397-405)
TaskFinish(t, u, err) ==
    /\ tasks[t].pc = "streaming"
    /\ tasks' = [tasks EXCEPT ![t].pc = IF err = NoError THEN "done" ELSE "failed",
                              ![t].exc = err]
    /\ ctx_usage' = IF err = NoError THEN AccountUsage(ctx_usage, u) ELSE ctx_usage
    /\ UNCHANGED <<cfgVars, milestoneVars, context, threads, persisted_thread, start_calls, resume_calls,
                   last_resumed_thread_id, turns, callVars, consumeVars, dispVars, turnVars,
                   execVars, pureVars, traceVars>>

NextConcurrent ==
    \/ \E t \in Tasks, input \in ConcurrentInputs : TaskBegin(t, input)
    \/ \E t \in Tasks : TaskResolveThread(t)
    \/ \E t \in Tasks : TaskThreadStarted(t)
    \/ \E t \in Tasks, u \in {NoUsage, Usage1}, err \in {NoError, ErrTurnFailed} :
          TaskFinish(t, u, err)

SpecConcurrent == InitConcurrent /\ [][NextConcurrent]_vars

\* C35: with persist_session, however the concurrent calls interleave at
\* their awaits, at most one Thread is ever created, and every call that got
\* a Thread got the cached one
C35_AtMostOneThread ==
    options.persist_session =>
        /\ Len(threads) <= 1
        /\ start_calls + resume_calls <= 1
        /\ \A t \in Tasks : tasks[t].thread \in {0, persisted_thread}

\* Two calls in their turns at the same time on the one cached Thread, a
\* third waiting for resolve_codex()
C35_Witness ==
    /\ options.persist_session
    /\ Len(threads) = 1
    /\ \E t1, t2, t3 \in Tasks :
          /\ t1 # t2
          /\ tasks[t1].pc = "streaming" /\ tasks[t1].thread = 1
          /\ tasks[t2].pc = "streaming" /\ tasks[t2].thread = 1
          /\ tasks[t3].pc = "resolve_codex"

\* ------------------------------------------------------------------------
\* Release milestone selection (.github/scripts/select-release-milestone.py)
\* ------------------------------------------------------------------------
\* The longest milestone list the selection is applied to
MaxMilestones == 2

\* str.lower(), on the capital letters the inputs use
LowerChar(c) ==
    CASE c = "R" -> "r"
      [] c = "B" -> "b"
      [] c = "O" -> "o"
      [] c = "V" -> "v"
      [] OTHER -> c

Lower(s) == [i \in 1..Len(s) |-> LowerChar(s[i])]

\* "sub in s"
Contains(s, sub) == \E i \in 0..(Len(s) - Len(sub)) : SubSeq(s, i + 1, i + Len(sub)) = sub

\* s.split(ch)
RECURSIVE SplitAcc(_, _, _)
SplitAcc(s, ch, cur) ==
    IF s = << >> THEN <<cur>>
    ELSE IF Head(s) = ch THEN <<cur>> \o SplitAcc(Tail(s), ch, << >>)
    ELSE SplitAcc(Tail(s), ch, Append(cur, Head(s)))

Split(s, ch) == SplitAcc(s, ch, << >>)

normalize_version(version) ==
    IF version # << >> /\ Head(version) = "v" THEN Tail(version) ELSE version

\* ".".join(parts[:2]) when there are two parts, "" otherwise
MajorMinor(v) ==
    LET parts == Split(v, ".")
    IN  IF Len(parts) >= 2 THEN parts[1] \o <<".">> \o parts[2] ELSE EmptyStr

\* The loop of lines 45-50: empty items and repetitions are left out
RECURSIVE Deduped(_, _)
Deduped(candidates, seen) ==
    IF candidates = << >> THEN << >>
    ELSE IF Head(candidates) # EmptyStr /\ Head(candidates) \notin seen
        THEN <<Head(candidates)>> \o Deduped(Tail(candidates), seen \cup {Head(candidates)})
        ELSE Deduped(Tail(candidates), seen)

build_candidates(version) ==
    LET v == Strip(normalize_version(version))
        mm == MajorMinor(v)
        named == <<Chars("v") \o v, v, Chars("release/v") \o v, Chars("release ") \o v,
                   Chars("release v") \o v, Chars("Release ") \o v, Chars("Release v") \o v>>
        series == IF Len(Split(v, ".")) >= 2
                      THEN <<Chars("v") \o mm \o Chars(".x"), mm \o Chars(".x"),
                             Chars("release v") \o mm \o Chars(".x"),
                             Chars("Release v") \o mm \o Chars(".x")>>
                      ELSE << >>
    IN  Deduped(named \o series, {})

score_milestone(title, state, version, candidates) ==
    LET lowered == Lower(Strip(title))
        version_norm == Lower(normalize_version(version))
        candidate_set == { Lower(candidates[i]) : i \in 1..Len(candidates) }
        mm == MajorMinor(version_norm)
        score == IF lowered \in candidate_set THEN 100
                 ELSE IF \E item \in candidate_set : IsPrefix(item, lowered) THEN 85
                 ELSE IF version_norm # EmptyStr /\ Contains(lowered, version_norm) THEN 70
                 ELSE IF mm # EmptyStr /\ Contains(lowered, mm) THEN 50
                 ELSE 0
    IN  IF lowered = EmptyStr THEN 0
        ELSE IF state = Chars("open") THEN score + 5
        ELSE score

\* The loop of lines 98-104: [title, score] of the best milestone so far
RECURSIVE BestMilestone(_, _, _, _)
BestMilestone(ms, version, candidates, best) ==
    IF ms = << >> THEN best
    ELSE LET title == Strip(Head(ms).title)
             state == Lower(Strip(Head(ms).state))
             score == score_milestone(title, state, version, candidates)
         IN  BestMilestone(Tail(ms), version, candidates,
                           IF score > best.score THEN [title |-> title, score |-> score]
                           ELSE best)

\* select_milestone, on what fetch_milestones returned
select_milestone(fetched, version) ==
    IF fetched = << >> THEN EmptyStr
    ELSE LET best == BestMilestone(fetched, version, build_candidates(version),
                                   [title |-> EmptyStr, score |-> 0])
         IN  IF best.score > 0 THEN best.title ELSE EmptyStr

MilestoneTitles ==
    { EmptyStr, Chars("v1.2.3"), Chars(" 1.2.3 "), Chars("Release v1.2.x"), Chars("v1.2.3-rc"),
      Chars("notes 1.2.3"), Chars("1.2 plan"), Chars("Backlog") }

MilestoneInputs ==
    [title : MilestoneTitles, state : {Chars("open"), Chars("closed"), Chars(" Open")}]

VersionInputs == { Chars("1.2.3"), Chars("v1.2.3"), Chars("1") }

RECURSIVE ListsUpTo(_, _)
ListsUpTo(S, n) ==
    IF n = 0 THEN {<< >>}
    ELSE ListsUpTo(S, n - 1) \cup { Append(l, x) : l \in ListsUpTo(S, n - 1), x \in S }

InitMilestone ==
    /\ AdapterIdle
    /\ PureIdle
    /\ milestones \in ListsUpTo(MilestoneInputs, MaxMilestones)
    /\ release_version \in VersionInputs
    /\ selected = NotSelected

\* print(select_milestone(args.repo, args.version))
SelectMilestone ==
    /\ selected = NotSelected
    /\ selected' = select_milestone(milestones, release_version)
    /\ UNCHANGED <<cfgVars, taskVars, sessVars, callVars, consumeVars, dispVars, turnVars,
                   execVars, pureVars, traceVars, milestones, release_version>>

NextMilestone == SelectMilestone

SpecMilestone == InitMilestone /\ [][NextMilestone]_vars

\* A title that equals or starts with a version candidate, contains the
\* version, or contains its major.minor
Suitable(m, version) ==
    LET lowered == Lower(Strip(m.title))
        cands == build_candidates(version)
        version_norm == Lower(normalize_version(version))
        mm == MajorMinor(version_norm)
    IN  \/ \E i \in 1..Len(cands) : IsPrefix(Lower(cands[i]), lowered)
        \/ version_norm # EmptyStr /\ Contains(lowered, version_norm)
        \/ mm # EmptyStr /\ Contains(lowered, mm)

ScoreOf(i) ==
    score_milestone(Strip(milestones[i].title), Lower(Strip(milestones[i].state)),
                    release_version, build_candidates(release_version))

\* C31: the selector prints the empty string when no milestone is suitable
\* (the list is empty, or no title equals or starts with a version candidate,
\* contains the version or contains its major.minor), and otherwise the title
\* of the first milestone in list order among those with the highest score
C31_SelectsSuitable ==
    selected # NotSelected =>
        IF \A i \in 1..Len(milestones) : ~Suitable(milestones[i], release_version)
            THEN selected = EmptyStr
            ELSE \E i \in 1..Len(milestones) :
                    /\ \A j \in 1..Len(milestones) : ScoreOf(j) <= ScoreOf(i)
                    /\ \A j \in 1..(i - 1) : ScoreOf(j) < ScoreOf(i)
                    /\ selected = Strip(milestones[i].title)

\* The second half of C31 alone: whenever a title is printed it is the first
\* of the highest score
SelectedIsFirstBest ==
    (selected # NotSelected /\ selected # EmptyStr) =>
        \E i \in 1..Len(milestones) :
            /\ \A j \in 1..Len(milestones) : ScoreOf(j) <= ScoreOf(i)
            /\ \A j \in 1..(i - 1) : ScoreOf(j) < ScoreOf(i)
            /\ selected = Strip(milestones[i].title)

\* An open milestone that is not suitable was printed
C31_Witness ==
    /\ selected # NotSelected
    /\ selected # EmptyStr
    /\ \A i \in 1..Len(milestones) : ~Suitable(milestones[i], release_version)

====
